---------------------------- MODULE Spec2Model ----------------------------
(***************************************************************************)
(* Intent classification and tool-plan resolution of the travel chatbot.   *)
(*                                                                         *)
(*   fast_*  the keyword classifier          (lib/fast-travel-classifier)  *)
(*   nb_*    the probabilistic classifier    (lib/naive-bayes-classifier)  *)
(*   analyzeSearchIntent                     (components/chatbot-section)  *)
(*                                                                         *)
(* Texts are TLA+ strings; a character is a string of length 1.            *)
(***************************************************************************)
EXTENDS Integers, Sequences, FiniteSets, TLC

VARIABLES
    trainingData,        \* nb: this.trainingData
    vocabulary,          \* nb: this.vocabulary
    categoryWordCounts,  \* nb: this.categoryWordCounts
    categoryCounts,      \* nb: this.categoryCounts
    totalDocuments,      \* nb: this.totalDocuments
    trained,             \* nb: this.trained
    bound,               \* chat: the classifier module the import resolves to
    op,                  \* the call that has run, "idle" between calls
    text,                \* its text argument
    threshold,           \* its threshold argument, in hundredths (nb_detectMultiIntent)
    ret,                 \* what it returned or threw
    scored,              \* the categories classify scored in it
    analyzed,            \* chat: what analyzeComprehensive gave analyzeSearchIntent
    memo,                \* the first classify since the model was trained, as its caller
                         \* keeps it, and how many reads came after it
    info,                \* the value of the last getModelInfo, as its caller holds it
    isTyping,            \* chat: the isTyping state of the component
    messages,            \* chat: its messages, each with the flow that appended it
    flows                \* chat: the request flows started, in flight or ended

model == <<trainingData, vocabulary, categoryWordCounts, categoryCounts,
           totalDocuments, trained>>
call == <<op, text, threshold, ret, scored, analyzed>>
chat == <<isTyping, messages, flows>>
vars == <<trainingData, vocabulary, categoryWordCounts, categoryCounts,
          totalDocuments, trained, bound, op, text, threshold, ret, scored,
          analyzed, memo, info, isTyping, messages, flows>>

----------------------------------------------------------------------------
(* Strings *)

Ch(s, i) == SubSeq(s, i, i)

UpperChars == "ABCDEFGHIJKLMNOPQRSTUVWXYZ"
LowerChars == "abcdefghijklmnopqrstuvwxyz"
DigitChars == "0123456789"

CharsOf(chars) == {Ch(chars, i) : i \in 1..Len(chars)}
UpperSet == CharsOf(UpperChars)
\* \d
DigitSet == CharsOf(DigitChars)
\* \w
WordSet == CharsOf(LowerChars) \cup UpperSet \cup DigitSet \cup {"_"}
\* \s, over the characters of the texts
SpaceSet == {" "}

IsSpace(c) == c \in SpaceSet
IsWord(c) == c \in WordSet
IsDigit(c) == c \in DigitSet

LowerOf == [c \in UpperSet |->
               Ch(LowerChars, CHOOSE i \in 1..Len(UpperChars) : Ch(UpperChars, i) = c)]

\* (by halves, which keeps the recursion shallow)
RECURSIVE toLowerCase(_)
toLowerCase(s) ==
    IF Len(s) = 0 THEN ""
    ELSE IF Len(s) = 1 THEN (IF s \in UpperSet THEN LowerOf[s] ELSE s)
    ELSE LET half == Len(s) \div 2
         IN  toLowerCase(SubSeq(s, 1, half)) \o toLowerCase(SubSeq(s, half + 1, Len(s)))

\* String.prototype.includes
includes(s, k) ==
    \E i \in 1..(Len(s) - Len(k) + 1) : SubSeq(s, i, i + Len(k) - 1) = k

\* !text || text.trim().length === 0
IsBlank(s) == \A i \in 1..Len(s) : IsSpace(Ch(s, i))

Least(set) == CHOOSE i \in set : \A j \in set : i <= j
Greatest(set) == CHOOSE i \in set : \A j \in set : i >= j

trim(s) ==
    IF IsBlank(s) THEN ""
    ELSE LET solid == {i \in 1..Len(s) : ~IsSpace(Ch(s, i))}
         IN  SubSeq(s, Least(solid), Greatest(solid))

\* text.split(' ').length
SplitSpaceLength(s) == Cardinality({i \in 1..Len(s) : Ch(s, i) = " "}) + 1

\* Array.prototype.filter over a sequence
Filter(seq, Keep(_)) == SelectSeq(seq, Keep)

Range(seq) == {seq[i] : i \in DOMAIN seq}

Max(a, b) == IF a >= b THEN a ELSE b
Min(a, b) == IF a <= b THEN a ELSE b

\* A JavaScript number: NaN, or the integer n (of the unit the context gives)
Num(v) == [nan |-> FALSE, n |-> v]
NaN == [nan |-> TRUE, n |-> 0]

\* The outcome of a call: the value it returned, or the error it threw
Returned(v) == [raised |-> FALSE, value |-> v]
Raised(error) == [raised |-> TRUE, value |-> error]

\* An optional value: undefined, or v
Undefined == [defined |-> FALSE, value |-> ""]
Defined(v) == [defined |-> TRUE, value |-> v]

----------------------------------------------------------------------------
(* Regular expressions, matched as a backtracking matcher does: the results  *)
(* of a pattern at a position are listed in the order the matcher tries them *)

Unbounded == -1

\* a literal string
Lit(str) == [k |-> "lit", s |-> str]
\* [set]{min,max}, or [set]{min,max}? when not greedy
Chars(set, min, max, greedy) ==
    [k |-> "chars", set |-> set, min |-> min, max |-> max, greedy |-> greedy]
\* r1 r2 ... rn
Cat(rs) == [k |-> "cat", rs |-> rs]
\* r1|r2|...|rn
Alt(rs) == [k |-> "alt", rs |-> rs]
\* (?:r)*
Star(r) == [k |-> "star", r |-> r]
\* (r), the one capturing group of a pattern
Cap(r) == [k |-> "cap", r |-> r]
\* ^, $ and \b
Bol == [k |-> "bol"]
Eol == [k |-> "eol"]
WordBoundary == [k |-> "wb"]
\* (?:r)?
Opt(r) == Alt(<<r, Cat(<<>>)>>)
\* (?:s1|s2|...|sn)
RECURSIVE Lits(_)
Lits(strs) == IF strs = <<>> THEN <<>> ELSE <<Lit(Head(strs))>> \o Lits(Tail(strs))
AnyOf(strs) == Alt(Lits(strs))

\* How many characters of s from position i on are in set
RunLength(s, i, set) ==
    Cardinality({j \in i..Len(s) : \A h \in i..j : Ch(s, h) \in set})

\* A result: the position after the match, and the span of the capturing group
Result(e, c) == [e |-> e, c |-> c]

\* The results inner of a group that starts at i, each with what it captures
Capture(i, inner) ==
    [j \in DOMAIN inner |-> Result(inner[j].e, <<i, inner[j].e - 1>>)]

RECURSIVE RegexResults(_, _, _)
RECURSIVE CatResults(_, _, _)
RECURSIVE CatEach(_, _, _)
RECURSIVE AltResults(_, _, _)
RECURSIVE StarEach(_, _, _)

RegexResults(r, s, i) ==
    CASE r.k = "lit" ->
            IF i + Len(r.s) - 1 <= Len(s) /\ SubSeq(s, i, i + Len(r.s) - 1) = r.s
            THEN <<Result(i + Len(r.s), <<>>)>> ELSE <<>>
      [] r.k = "chars" ->
            LET run == RunLength(s, i, r.set)
                top == IF r.max = Unbounded THEN run ELSE Min(run, r.max)
            IN  IF top < r.min THEN <<>>
                ELSE [j \in 1..(top - r.min + 1) |->
                        Result(i + (IF r.greedy THEN top - j + 1 ELSE r.min + j - 1), <<>>)]
      [] r.k = "cat" -> CatResults(r.rs, s, i)
      [] r.k = "alt" -> AltResults(r.rs, s, i)
      [] r.k = "star" ->
            StarEach(r.r, s, RegexResults(r.r, s, i)) \o <<Result(i, <<>>)>>
      [] r.k = "cap" -> Capture(i, RegexResults(r.r, s, i))
      [] r.k = "bol" -> IF i = 1 THEN <<Result(i, <<>>)>> ELSE <<>>
      [] r.k = "eol" -> IF i = Len(s) + 1 THEN <<Result(i, <<>>)>> ELSE <<>>
      [] r.k = "wb" ->
            LET before == i > 1 /\ IsWord(Ch(s, i - 1))
                after == i <= Len(s) /\ IsWord(Ch(s, i))
            IN  IF before # after THEN <<Result(i, <<>>)>> ELSE <<>>

CatResults(rs, s, i) ==
    IF rs = <<>> THEN <<Result(i, <<>>)>>
    ELSE CatEach(RegexResults(Head(rs), s, i), Tail(rs), s)

\* The results tails that follow the result h, with the capture of h where they
\* have none
KeepCapture(h, tails) ==
    [j \in DOMAIN tails |->
        Result(tails[j].e, IF tails[j].c # <<>> THEN tails[j].c ELSE h.c)]

\* The results of rest after each result of heads (by halves)
CatEach(heads, rest, s) ==
    IF heads = <<>> THEN <<>>
    ELSE IF Len(heads) = 1
    THEN KeepCapture(heads[1], CatResults(rest, s, heads[1].e))
    ELSE LET half == Len(heads) \div 2
         IN  CatEach(SubSeq(heads, 1, half), rest, s)
             \o CatEach(SubSeq(heads, half + 1, Len(heads)), rest, s)

AltResults(rs, s, i) ==
    IF rs = <<>> THEN <<>>
    ELSE RegexResults(Head(rs), s, i) \o AltResults(Tail(rs), s, i)

\* One more round of the loop after each result of heads
StarEach(r, s, heads) ==
    IF heads = <<>> THEN <<>>
    ELSE LET h == Head(heads)
             more == StarEach(r, s, RegexResults(r, s, h.e)) \o <<Result(h.e, <<>>)>>
         IN  more \o StarEach(r, s, Tail(heads))

NoMatch == [matched |-> FALSE, at |-> 0, e |-> 0, c |-> <<>>]

\* The leftmost match of r in s that starts at from or later
MatchAt(i, first) == [matched |-> TRUE, at |-> i, e |-> first.e, c |-> first.c]

FirstMatchAt(r, s, i) == MatchAt(i, Head(RegexResults(r, s, i)))

FirstMatchIn(r, s, hits) == IF hits = {} THEN NoMatch ELSE FirstMatchAt(r, s, Least(hits))

RegexMatchFrom(r, s, from) ==
    FirstMatchIn(r, s, {i \in from..(Len(s) + 1) : RegexResults(r, s, i) # <<>>})

\* s.match(r) and r.test(s)
RegexMatch(r, s) == RegexMatchFrom(r, s, 1)
RegexTest(r, s) == RegexMatch(r, s).matched

\* match[0] and match[1]
MatchedText(s, m) == SubSeq(s, m.at, m.e - 1)
CapturedText(s, m) == SubSeq(s, m.c[1], m.c[2])

----------------------------------------------------------------------------
(* The keyword classifier *)

Categories == <<"flights", "hotels", "places", "other">>

keywordMap == [
    flights |-> <<
        "flight", "flights", "fly", "flying", "plane", "airplane", "aircraft", "jet",
        "airport", "departure", "arrival", "airline", "ticket", "tickets", "boarding",
        "round trip", "one way", "layover", "connecting", "direct", "nonstop",
        "business class", "economy", "first class", "baggage", "check-in" >>,
    hotels |-> <<
        "hotel", "hotels", "accommodation", "stay", "staying", "lodge", "lodging",
        "resort", "motel", "hostel", "room", "rooms", "suite", "booking", "reservation",
        "check in", "check out", "bed and breakfast", "bnb", "vacation rental",
        "guest house", "inn", "spa", "amenities", "concierge" >>,
    places |-> <<
        "places", "attractions", "activities", "things to do", "sightseeing", "visit",
        "explore", "see", "tourist", "tourism", "landmarks", "monuments", "museums",
        "galleries", "parks", "beaches", "mountains", "hiking", "tours", "excursions",
        "cultural", "historical", "entertainment", "nightlife", "restaurants", "dining",
        "shopping", "markets", "festivals", "events", "what to do", "where to go" >> ]

\* Object.entries(this.keywordMap): the keys in insertion order
keywordMapKeys == <<"flights", "hotels", "places">>

nonTravelKeywords == <<
    "weather", "temperature", "climate", "forecast", "rain", "sunny", "cloudy",
    "news", "current events", "politics", "sports", "scores", "game",
    "recipe", "cooking", "food", "ingredients", "how to cook",
    "health", "medical", "doctor", "symptoms", "medicine",
    "technology", "computer", "software", "programming", "code",
    "time", "date", "calendar", "schedule",
    "joke", "funny", "entertainment", "movie", "tv show",
    "math", "calculate", "equation", "homework", "study",
    "definition", "meaning", "explain", "what is", "how does" >>

\* keywords.filter(keyword => lowerText.includes(keyword))
Matches(lowerText, keywords) ==
    LET Hit(k) == includes(lowerText, k) IN Filter(keywords, Hit)

\* Math.round(x * 100) of x = num / den >= 0, in hundredths
RoundHundredths(num, den) == (200 * num + den) \div (2 * den)

\* Math.min(maxScore / Math.max(1, words / 3), 1), rounded to hundredths
fast_confidence(maxScore, words) ==
    IF words <= 3 THEN Min(100 * maxScore, 100)
    ELSE Min(RoundHundredths(3 * maxScore, words), 100)

\* The last category, in the order of the map, whose score is maxScore
fast_lastBestCategory(matchedKeywords, maxScore) ==
    IF Len(matchedKeywords.places) = maxScore THEN "places"
    ELSE IF Len(matchedKeywords.hotels) = maxScore THEN "hotels"
    ELSE "flights"

\* The first category, in the order of the map, whose score is maxScore
fast_bestCategory(matchedKeywords, maxScore) ==
    IF Len(matchedKeywords.flights) = maxScore THEN "flights"
    ELSE IF Len(matchedKeywords.hotels) = maxScore THEN "hotels"
    ELSE "places"

fast_nonTravelMatches(lowerText) == Matches(lowerText, nonTravelKeywords)

\* The result of classify from the matches of each travel category
fast_classifyScored(t, matchedKeywords, maxScore) ==
    IF maxScore = 0
    THEN [category |-> "other", confidence |-> Num(0), matchedKeywords |-> <<>>]
    ELSE [category |-> fast_bestCategory(matchedKeywords, maxScore),
          confidence |-> Num(fast_confidence(maxScore, SplitSpaceLength(t))),
          matchedKeywords |-> matchedKeywords[fast_bestCategory(matchedKeywords, maxScore)]]

\* Math.max(...Object.values(scores))
fast_maxScore(matchedKeywords) ==
    Max(Len(matchedKeywords.flights),
        Max(Len(matchedKeywords.hotels), Len(matchedKeywords.places)))

\* The keywords of each travel category that lowerText includes
fast_matchedKeywords(lowerText) ==
    [flights |-> Matches(lowerText, keywordMap.flights),
     hotels |-> Matches(lowerText, keywordMap.hotels),
     places |-> Matches(lowerText, keywordMap.places)]

fast_classifyTravel(t, matchedKeywords) ==
    [result |-> Returned(fast_classifyScored(t, matchedKeywords,
                                             fast_maxScore(matchedKeywords))),
     scored |-> Range(keywordMapKeys)]

\* classify with the non-travel check after the travel categories
fast_classifyTravelFirst(t, lowerText, nonTravelMatches) ==
    IF Len(nonTravelMatches) > 0 /\ fast_maxScore(fast_matchedKeywords(lowerText)) = 0
    THEN [result |-> Returned([category |-> "other", confidence |-> Num(90),
                               matchedKeywords |-> nonTravelMatches]),
          scored |-> {}]
    ELSE fast_classifyTravel(t, fast_matchedKeywords(lowerText))

fast_classifyText(t, lowerText, nonTravelMatches) ==
    IF Len(nonTravelMatches) > 0
    THEN [result |-> Returned([category |-> "other", confidence |-> Num(90),
                               matchedKeywords |-> nonTravelMatches]),
          scored |-> {}]
    ELSE fast_classifyTravel(t, fast_matchedKeywords(lowerText))

\* What classify returns, and the categories it scored
fast_classifyRun(t) ==
    IF IsBlank(t)
    THEN [result |-> Returned([category |-> "other", confidence |-> Num(0),
                               matchedKeywords |-> <<>>]),
          scored |-> {}]
    ELSE fast_classifyText(t, toLowerCase(t), fast_nonTravelMatches(toLowerCase(t)))

fast_classify(t) == fast_classifyRun(t).result

\* intents.length > 0 ? intents : ['other']
intentsOrOther(intents) == IF Len(intents) > 0 THEN intents ELSE <<"other">>

\* detectMultiIntent giving way to the non-travel keywords, as classify does
fast_detectAfterNonTravel(t) ==
    LET lowerText == toLowerCase(t)
        Hit(c) == Len(Matches(lowerText, keywordMap[c])) >= 1
    IN  Returned(intentsOrOther(IF Len(fast_nonTravelMatches(lowerText)) > 0 THEN <<>>
                                ELSE Filter(keywordMapKeys, Hit)))

\* What detectMultiIntent returns
fast_detectMultiIntent(t) ==
    LET lowerText == toLowerCase(t)
        Hit(c) == Len(Matches(lowerText, keywordMap[c])) >= 1
    IN  Returned(intentsOrOther(Filter(keywordMapKeys, Hit)))

\* \s* and \s+
Spaces0 == Chars(SpaceSet, 0, Unbounded, TRUE)
Spaces1 == Chars(SpaceSet, 1, Unbounded, TRUE)

\* \d+(?:,\d{3})*(?:\.\d{2})?
AmountPattern ==
    Cat(<<Chars(DigitSet, 1, Unbounded, TRUE),
          Star(Cat(<<Lit(","), Chars(DigitSet, 3, 3, TRUE)>>)),
          Opt(Cat(<<Lit("."), Chars(DigitSet, 2, 2, TRUE)>>))>>)

\* /\$(\d+(?:,\d{3})*(?:\.\d{2})?)/
DollarAmountPattern == Cat(<<Lit("$"), Cap(AmountPattern)>>)

\* str.replace(',', ''): without its first comma
replaceFirstComma(str) ==
    LET commas == {i \in 1..Len(str) : Ch(str, i) = ","}
    IN  IF commas = {} THEN str
        ELSE LET i == Least(commas)
             IN  SubSeq(str, 1, i - 1) \o SubSeq(str, i + 1, Len(str))

DigitValue(c) == CHOOSE d \in 0..9 : Ch(DigitChars, d + 1) = c

\* The number a string of digits denotes
RECURSIVE DigitsValue(_)
DigitsValue(digits) ==
    IF digits = "" THEN 0
    ELSE 10 * DigitsValue(SubSeq(digits, 1, Len(digits) - 1))
         + DigitValue(Ch(digits, Len(digits)))

\* parseFloat(str) of a str that starts with a digit: the number its longest
\* numeric prefix denotes, as whole units and a fraction in hundredths
parseFloat(str) ==
    LET whole == RunLength(str, 1, DigitSet)
        fraction == IF whole < Len(str) /\ Ch(str, whole + 1) = "."
                    THEN Min(RunLength(str, whole + 2, DigitSet), 2) ELSE 0
        digits == SubSeq(str, whole + 2, whole + 1 + fraction)
    IN  [whole |-> DigitsValue(SubSeq(str, 1, whole)),
         hundredths |-> IF fraction = 1 THEN 10 * DigitsValue(digits)
                        ELSE DigitsValue(digits)]

NoBudget == [hasBudget |-> FALSE]

fast_urgencyKeywords == <<"urgent", "asap", "immediately", "now", "today", "emergency">>

fast_urgencyOf(foundUrgency) ==
    [isUrgent |-> Len(foundUrgency) > 0,
     urgencyLevel |-> IF Len(foundUrgency) > 0 THEN "high" ELSE "low",
     keywords |-> foundUrgency]

fast_urgency(t) == fast_urgencyOf(Matches(toLowerCase(t), fast_urgencyKeywords))

\* The budget a match of the pattern gives
fast_budgetOf(t, budgetMatch) ==
    IF budgetMatch.matched
    THEN [hasBudget |-> TRUE,
          amount |-> parseFloat(replaceFirstComma(CapturedText(t, budgetMatch))),
          currency |-> "USD",
          type |-> "around"]
    ELSE NoBudget

fast_budget(t) == fast_budgetOf(t, RegexMatch(DollarAmountPattern, t))

\* shouldRouteToLLM without the test of the category
fast_shouldRouteOnConfidence(classification) ==
    ~classification.confidence.nan /\ classification.confidence.n < 30

\* classification.confidence < 0.3 || classification.category === 'other'
fast_shouldRouteToLLM(classification) ==
    (~classification.confidence.nan /\ classification.confidence.n < 30)
    \/ classification.category = "other"

\* What analyzeComprehensive returns
fast_analysis(classification, multiIntent, urgency, budget) ==
    [classification |-> classification,
     multiIntent |-> multiIntent,
     urgency |-> urgency,
     budget |-> budget,
     confidence |-> classification.confidence,
     shouldRouteToLLM |-> fast_shouldRouteToLLM(classification)]

fast_analyzeComprehensive(t) ==
    Returned(fast_analysis(fast_classify(t).value, fast_detectMultiIntent(t).value,
                           fast_urgency(t), fast_budget(t)))

----------------------------------------------------------------------------
(* Natural numbers of any size: base-10000 limbs, least significant first,  *)
(* no leading zero limb (zero is the empty sequence).  The scores of the    *)
(* probabilistic classifier do not fit TLC's 32-bit integers.               *)

Base == 10^4

RECURSIVE BigOf(_)
BigOf(n) == IF n = 0 THEN <<>> ELSE <<n % Base>> \o BigOf(n \div Base)

RECURSIVE BigStrip(_)
BigStrip(a) ==
    IF a # <<>> /\ a[Len(a)] = 0 THEN BigStrip(SubSeq(a, 1, Len(a) - 1)) ELSE a

RECURSIVE BigAddC(_, _, _)
BigAddC(a, b, carry) ==
    IF a = <<>> /\ b = <<>> THEN BigOf(carry)
    ELSE LET x == IF a = <<>> THEN 0 ELSE Head(a)
             y == IF b = <<>> THEN 0 ELSE Head(b)
             s == x + y + carry
         IN  <<s % Base>> \o BigAddC(IF a = <<>> THEN a ELSE Tail(a),
                                      IF b = <<>> THEN b ELSE Tail(b), s \div Base)

BigAdd(a, b) == BigAddC(a, b, 0)

\* a - b, for a >= b
RECURSIVE BigSubB(_, _, _)
BigSubB(a, b, borrow) ==
    IF a = <<>> THEN <<>>
    ELSE LET y == IF b = <<>> THEN 0 ELSE Head(b)
             d == Head(a) - y - borrow
         IN  <<(d + Base) % Base>> \o
             BigSubB(Tail(a), IF b = <<>> THEN b ELSE Tail(b), IF d < 0 THEN 1 ELSE 0)

BigSub(a, b) == BigStrip(BigSubB(a, b, 0))

\* a * k, for 0 <= k <= Base
RECURSIVE BigMulSmallC(_, _, _)
BigMulSmallC(a, k, carry) ==
    IF a = <<>> THEN BigOf(carry)
    ELSE LET p == Head(a) * k + carry
         IN  <<p % Base>> \o BigMulSmallC(Tail(a), k, p \div Base)

BigMulSmall(a, k) == IF k = 0 THEN <<>> ELSE BigMulSmallC(a, k, 0)

RECURSIVE BigMul(_, _)
BigMul(a, b) ==
    IF a = <<>> \/ b = <<>> THEN <<>>
    ELSE BigAdd(BigMulSmall(a, Head(b)),
                LET rest == BigMul(a, Tail(b))
                IN  IF rest = <<>> THEN <<>> ELSE <<0>> \o rest)

\* a < b
RECURSIVE BigLessFrom(_, _, _)
BigLessFrom(a, b, i) ==
    IF i = 0 THEN FALSE
    ELSE IF a[i] # b[i] THEN a[i] < b[i]
    ELSE BigLessFrom(a, b, i - 1)

BigLess(a, b) ==
    IF Len(a) # Len(b) THEN Len(a) < Len(b) ELSE BigLessFrom(a, b, Len(a))

\* n ^ k as a big number, for 0 <= n <= Base
RECURSIVE BigPow(_, _)
BigPow(n, k) == IF k = 0 THEN BigOf(1) ELSE BigMulSmall(BigPow(n, k - 1), n)

\* Fractions are fixed-point numbers: an integer number of 1/Scale
ScaleDigits == 8
Scale == 10^ScaleDigits

\* b, 2b, ..., 9b
Multiples(b) ==
    <<b, BigMulSmall(b, 2), BigMulSmall(b, 3), BigMulSmall(b, 4), BigMulSmall(b, 5),
      BigMulSmall(b, 6), BigMulSmall(b, 7), BigMulSmall(b, 8), BigMulSmall(b, 9)>>

\* How many times b goes into r10, for r10 < 10b and m = Multiples(b)
DigitOf(r10, m) == Cardinality({j \in DOMAIN m : ~BigLess(r10, m[j])})

\* The first k decimal digits of r / b, for r < b and m = Multiples(b)
RECURSIVE FracDigits(_, _, _)
RECURSIVE FracDigitsFrom(_, _, _, _)
FracDigits(r, m, k) ==
    IF k = 0 THEN 0 ELSE FracDigitsFrom(BigMulSmall(r, 10), m, k, DigitOf(BigMulSmall(r, 10), m))

\* The digit d of r10 / b and the digits after it
FracDigitsFrom(r10, m, k, d) ==
    d * 10^(k - 1) + FracDigits(IF d = 0 THEN r10 ELSE BigSub(r10, m[d]), m, k - 1)

\* a / b in 1/Scale, rounded down, for 0 <= a <= b and b > 0
FracDiv(a, b) == IF a = b THEN Scale ELSE FracDigits(a, Multiples(b), ScaleDigits)

----------------------------------------------------------------------------
(* The probabilistic classifier *)

embeddedTrainingData == <<
    [text |-> "book a flight to paris", category |-> "flights"],
    [text |-> "find cheap flights to tokyo", category |-> "flights"],
    [text |-> "round trip flight from nyc to london", category |-> "flights"],
    [text |-> "one way ticket to madrid", category |-> "flights"],
    [text |-> "airplane tickets under 500 dollars", category |-> "flights"],
    [text |-> "airline reservations for business trip", category |-> "flights"],
    [text |-> "departure time from los angeles airport", category |-> "flights"],
    [text |-> "connecting flight through denver", category |-> "flights"],
    [text |-> "direct flights to miami", category |-> "flights"],
    [text |-> "last minute flight deals", category |-> "flights"],
    [text |-> "international flights to europe", category |-> "flights"],
    [text |-> "domestic airline tickets", category |-> "flights"],
    [text |-> "red eye flight to san francisco", category |-> "flights"],
    [text |-> "upgrade to business class", category |-> "flights"],
    [text |-> "check in online for my flight", category |-> "flights"],
    [text |-> "flight status and delays", category |-> "flights"],
    [text |-> "baggage allowance for international travel", category |-> "flights"],
    [text |-> "airport shuttle service", category |-> "flights"],
    [text |-> "jet off to vacation destination", category |-> "flights"],
    [text |-> "aviation travel options", category |-> "flights"],
    [text |-> "book hotel room in barcelona", category |-> "hotels"],
    [text |-> "luxury resort near beach", category |-> "hotels"],
    [text |-> "cheap accommodation in rome", category |-> "hotels"],
    [text |-> "hostel with breakfast included", category |-> "hotels"],
    [text |-> "five star hotel with spa", category |-> "hotels"],
    [text |-> "bed and breakfast in tuscany", category |-> "hotels"],
    [text |-> "vacation rental apartment", category |-> "hotels"],
    [text |-> "suite with ocean view", category |-> "hotels"],
    [text |-> "check in and check out times", category |-> "hotels"],
    [text |-> "hotel amenities and facilities", category |-> "hotels"],
    [text |-> "room service and concierge", category |-> "hotels"],
    [text |-> "lodging near city center", category |-> "hotels"],
    [text |-> "pet friendly hotels", category |-> "hotels"],
    [text |-> "boutique hotel recommendations", category |-> "hotels"],
    [text |-> "all inclusive resort package", category |-> "hotels"],
    [text |-> "motel with parking included", category |-> "hotels"],
    [text |-> "staying overnight in berlin", category |-> "hotels"],
    [text |-> "accommodation with kitchen", category |-> "hotels"],
    [text |-> "hotel reservation confirmation", category |-> "hotels"],
    [text |-> "guest house near airport", category |-> "hotels"],
    [text |-> "things to do in paris", category |-> "places"],
    [text |-> "tourist attractions in rome", category |-> "places"],
    [text |-> "visit museums and galleries", category |-> "places"],
    [text |-> "explore ancient landmarks", category |-> "places"],
    [text |-> "sightseeing tour of city", category |-> "places"],
    [text |-> "cultural activities and events", category |-> "places"],
    [text |-> "historical sites to explore", category |-> "places"],
    [text |-> "entertainment and nightlife", category |-> "places"],
    [text |-> "local markets and shopping", category |-> "places"],
    [text |-> "outdoor activities and hiking", category |-> "places"],
    [text |-> "beaches and coastal areas", category |-> "places"],
    [text |-> "mountain regions to visit", category |-> "places"],
    [text |-> "national parks and nature", category |-> "places"],
    [text |-> "architecture and monuments", category |-> "places"],
    [text |-> "festivals and celebrations", category |-> "places"],
    [text |-> "religious sites and temples", category |-> "places"],
    [text |-> "scenic viewpoints and photography", category |-> "places"],
    [text |-> "local cuisine and restaurants", category |-> "places"],
    [text |-> "guided tours and excursions", category |-> "places"],
    [text |-> "hidden gems off beaten path", category |-> "places"],
    [text |-> "what is the weather like", category |-> "other"],
    [text |-> "how are you doing today", category |-> "other"],
    [text |-> "tell me a joke", category |-> "other"],
    [text |-> "help with homework", category |-> "other"],
    [text |-> "what time is it", category |-> "other"],
    [text |-> "news and current events", category |-> "other"],
    [text |-> "sports scores and updates", category |-> "other"],
    [text |-> "cooking recipes and tips", category |-> "other"],
    [text |-> "health and fitness advice", category |-> "other"],
    [text |-> "technology troubleshooting", category |-> "other"] >>

stopWords == {
    "the", "and", "for", "are", "but", "not", "you", "all", "can", "had",
    "her", "was", "one", "our", "out", "day", "get", "has", "him", "his",
    "how", "man", "new", "now", "old", "see", "two", "way", "who", "its",
    "said", "each", "make", "most", "over", "such", "very", "what", "with" }

isStopWord(word) == word \in stopWords

\* .replace(/[^\w\s]/g, ' ')  (by halves)
RECURSIVE ReplaceNonWord(_)
ReplaceNonWord(s) ==
    IF Len(s) = 0 THEN ""
    ELSE IF Len(s) = 1 THEN (IF IsWord(s) \/ IsSpace(s) THEN s ELSE " ")
    ELSE LET half == Len(s) \div 2
         IN  ReplaceNonWord(SubSeq(s, 1, half)) \o ReplaceNonWord(SubSeq(s, half + 1, Len(s)))

\* The pieces of s that start at the positions of starts, each running up to the
\* next white space, in order
RECURSIVE PiecesFrom(_, _)
PiecesFrom(s, starts) ==
    IF starts = {} THEN <<>>
    ELSE LET first == Least(starts)
             last == Least({j \in first..Len(s) : j = Len(s) \/ IsSpace(Ch(s, j + 1))})
         IN  <<SubSeq(s, first, last)>> \o PiecesFrom(s, starts \ {first})

\* .split(/\s+/): the pieces between the runs of white space; an empty piece
\* before a leading run and after a trailing one
SplitSpaces(s) ==
    LET starts == {i \in 1..Len(s) :
                      ~IsSpace(Ch(s, i)) /\ (i = 1 \/ IsSpace(Ch(s, i - 1)))}
    IN  (IF s = "" \/ IsSpace(Ch(s, 1)) THEN <<"">> ELSE <<>>)
        \o PiecesFrom(s, starts)
        \o (IF s # "" /\ IsSpace(Ch(s, Len(s))) THEN <<"">> ELSE <<>>)

tokenize(t) ==
    LET Keep(word) == Len(word) > 2 /\ ~isStopWord(word)
    IN  Filter(SplitSpaces(ReplaceNonWord(toLowerCase(t))), Keep)

\* The properties every plain object {} inherits from Object.prototype
ObjectPrototypeKeys == {
    "constructor", "__defineGetter__", "__defineSetter__", "hasOwnProperty",
    "__lookupGetter__", "__lookupSetter__", "isPrototypeOf", "propertyIsEnumerable",
    "toString", "valueOf", "__proto__", "toLocaleString" }

\* obj[key] of a plain object whose own properties are numbers
GetOwn == "own"
GetInherited == "inherited"
GetUndefined == "undefined"
PropertyKind(obj, key) ==
    IF key # "__proto__" /\ key \in DOMAIN obj THEN GetOwn
    ELSE IF key \in ObjectPrototypeKeys THEN GetInherited
    ELSE GetUndefined

\* obj[key] = v: the __proto__ setter ignores a value that is no object
SetProperty(obj, key, v) ==
    IF key = "__proto__" THEN obj
    ELSE [k \in DOMAIN obj \cup {key} |-> IF k = key THEN v ELSE obj[k]]

NoProperties == [k \in {} |-> Num(0)]

\* initializeCategories
initializeCategories ==
    [categoryWordCounts |-> [c \in Range(Categories) |-> NoProperties],
     categoryCounts |-> [c \in Range(Categories) |-> 0]]

\* if (!counts[token]) counts[token] = 0;  counts[token]++
CountToken(counts, token) ==
    LET kind == PropertyKind(counts, token)
        falsy == \/ kind = GetUndefined
                 \/ kind = GetOwn /\ (counts[token].nan \/ counts[token].n = 0)
    IN  IF falsy THEN SetProperty(counts, token, Num(1))
        ELSE IF kind = GetOwn THEN SetProperty(counts, token, Num(counts[token].n + 1))
        ELSE SetProperty(counts, token, NaN)

RECURSIVE CountTokens(_, _)
CountTokens(counts, tokens) ==
    IF tokens = <<>> THEN counts
    ELSE CountTokens(CountToken(counts, Head(tokens)), Tail(tokens))

\* the body of train's forEach, for one sample
TrainSample(m, sample) ==
    LET tokens == tokenize(sample.text)
        category == sample.category
    IN  [vocabulary |-> m.vocabulary \cup Range(tokens),
         totalDocuments |-> m.totalDocuments + 1,
         categoryCounts |-> [m.categoryCounts EXCEPT ![category] = @ + 1],
         categoryWordCounts |->
             [m.categoryWordCounts EXCEPT ![category] = CountTokens(@, tokens)]]

\* trainingData.forEach: the samples in order (by halves, which keeps the
\* recursion shallow)
RECURSIVE TrainSamples(_, _)
TrainSamples(m, data) ==
    IF Len(data) = 0 THEN m
    ELSE IF Len(data) = 1 THEN TrainSample(m, data[1])
    ELSE LET half == Len(data) \div 2
             first == TrainSamples(m, SubSeq(data, 1, half))
         IN  \* (the test makes TLC evaluate first before it goes on)
             IF first.totalDocuments > 0
             THEN TrainSamples(first, SubSeq(data, half + 1, Len(data)))
             ELSE first

\* train: the model recomputed from the training data
train(data) ==
    TrainSamples([vocabulary |-> {},
                  totalDocuments |-> 0,
                  categoryCounts |-> initializeCategories.categoryCounts,
                  categoryWordCounts |-> initializeCategories.categoryWordCounts],
                 data)

\* Object.values(counts).reduce((sum, count) => sum + count, 0)
RECURSIVE SumOver(_, _)
SumOver(counts, keys) ==
    IF keys = {} THEN 0
    ELSE LET k == CHOOSE k \in keys : TRUE
         IN  counts[k].n + SumOver(counts, keys \ {k})

totalWordsInCategory(category) ==
    LET counts == categoryWordCounts[category]
    IN  IF \E k \in DOMAIN counts : counts[k].nan THEN NaN
        ELSE Num(SumOver(counts, DOMAIN counts))

\* this.categoryWordCounts[category][token] || 0
wordCountInCategory(category, token) ==
    LET counts == categoryWordCounts[category]
        kind == PropertyKind(counts, token)
    IN  IF kind = GetOwn THEN (IF counts[token].nan THEN Num(0) ELSE counts[token])
        ELSE IF kind = GetInherited THEN NaN   \* a function or object plus 1 is no number
        ELSE Num(0)

\* A log-score is kept as the probability whose logarithm it is: num / den as
\* big numbers, or NaN.  Math.log is increasing, so log-scores compare as these do.
RECURSIVE LikelihoodNum(_, _)
LikelihoodNum(category, tokens) ==
    IF tokens = <<>> THEN BigOf(1)
    ELSE BigMulSmall(LikelihoodNum(category, Tail(tokens)),
                     wordCountInCategory(category, Head(tokens)).n + 1)

\* The log-score of the tokens, with total the words counted in the category
logProbabilityOf(tokens, category, total) ==
    IF tokens # <<>> /\
       (total.nan \/ \E i \in DOMAIN tokens :
                         wordCountInCategory(category, tokens[i]).nan)
    THEN [nan |-> TRUE, num |-> <<>>, den |-> <<>>]
    ELSE [nan |-> FALSE,
          num |-> BigMulSmall(LikelihoodNum(category, tokens), categoryCounts[category]),
          den |-> BigMulSmall(BigPow(total.n + Cardinality(vocabulary), Len(tokens)),
                              totalDocuments)]

calculateLogProbability(t, category) ==
    logProbabilityOf(tokenize(t), category, totalWordsInCategory(category))

\* logProbabilities[a] > logProbabilities[b]
LogGreater(x, y) ==
    ~x.nan /\ ~y.nan /\ BigLess(BigMul(y.num, x.den), BigMul(x.num, y.den))

\* The reduction that keeps the earlier of two equal scores
RECURSIVE ReduceFirstBest(_, _, _)
ReduceFirstBest(lp, a, rest) ==
    IF rest = <<>> THEN a
    ELSE ReduceFirstBest(lp, IF LogGreater(lp[Head(rest)], lp[a]) THEN Head(rest) ELSE a,
                         Tail(rest))

\* Object.keys(logProbabilities).reduce((a, b) => lp[a] > lp[b] ? a : b)
RECURSIVE ReduceBest(_, _, _)
ReduceBest(lp, a, rest) ==
    IF rest = <<>> THEN a
    ELSE ReduceBest(lp, IF LogGreater(lp[a], lp[Head(rest)]) THEN a ELSE Head(rest),
                    Tail(rest))

bestCategoryOf(lp) == ReduceBest(lp, Head(Categories), Tail(Categories))

\* Math.max(...Object.values(logProbabilities)): NaN when any value is NaN
RECURSIVE MaxOver(_, _, _)
MaxOver(lp, max, rest) ==
    IF rest = <<>> THEN max
    ELSE MaxOver(lp, IF LogGreater(lp[Head(rest)], max) THEN lp[Head(rest)] ELSE max,
                 Tail(rest))

maxLogProbOf(lp) ==
    IF \E c \in Range(Categories) : lp[c].nan THEN [nan |-> TRUE, num |-> <<>>, den |-> <<>>]
    ELSE MaxOver(lp, lp[Head(Categories)], Tail(Categories))

\* Math.exp(logProb - maxLogProb), in 1/Scale
expOfDifference(x, max) ==
    IF x.nan \/ max.nan THEN NaN
    ELSE Num(FracDiv(BigMul(x.num, max.den), BigMul(x.den, max.num)))

\* probabilities[category] / totalProb, in 1/Scale
normalize(prob, totalProb) ==
    IF prob.nan \/ totalProb.nan THEN NaN
    ELSE Num(FracDiv(BigOf(prob.n), BigOf(totalProb.n)))

\* Math.round(confidence * 100) / 100, in hundredths
roundConfidence(confidence) ==
    IF confidence.nan THEN NaN
    ELSE Num((confidence.n + Scale \div 200) \div (Scale \div 100))

\* categories.forEach(category => { logProbabilities[category] = ... })
RECURSIVE logProbabilitiesOf(_, _)
logProbabilitiesOf(t, categories) ==
    IF categories = <<>> THEN <<>>
    ELSE (Head(categories) :> calculateLogProbability(t, Head(categories)))
         @@ logProbabilitiesOf(t, Tail(categories))

\* probabilities[category] = Math.exp(logProb - maxLogProb), for each category
RECURSIVE expOfDifferences(_, _, _)
expOfDifferences(logProbabilities, maxLogProb, categories) ==
    IF categories = <<>> THEN <<>>
    ELSE (Head(categories) :>
              expOfDifference(logProbabilities[Head(categories)], maxLogProb))
         @@ expOfDifferences(logProbabilities, maxLogProb, Tail(categories))

\* totalProb += prob, over the categories
RECURSIVE totalOf(_, _)
totalOf(prob, categories) ==
    IF categories = <<>> THEN Num(0)
    ELSE LET rest == totalOf(prob, Tail(categories))
             first == prob[Head(categories)]
         IN  IF first.nan \/ rest.nan THEN NaN ELSE Num(first.n + rest.n)

\* probabilities[category] = probabilities[category] / totalProb, for each category
RECURSIVE normalized(_, _, _)
normalized(prob, totalProb, categories) ==
    IF categories = <<>> THEN <<>>
    ELSE (Head(categories) :> normalize(prob[Head(categories)], totalProb))
         @@ normalized(prob, totalProb, Tail(categories))

\* The result of classify, from the normalized probabilities
classifyResult(t, bestCategory, probabilities) ==
    LET InVocabulary(token) == token \in vocabulary
    IN  [category |-> bestCategory,
         confidence |-> roundConfidence(probabilities[bestCategory]),
         probabilities |-> probabilities,
         keywords |-> Filter(tokenize(t), InVocabulary)]

\* The result of classify, from the log-scores
classifyScored(t, logProbabilities) ==
    LET prob == expOfDifferences(logProbabilities, maxLogProbOf(logProbabilities),
                                 Categories)
    IN  classifyResult(t, bestCategoryOf(logProbabilities),
                   normalized(prob, totalOf(prob, Categories), Categories))

\* classify without its guard for blank text
nb_classifyRunUnguarded(t) ==
    IF ~trained
    THEN [result |-> Raised("Classifier must be trained before classification"),
          scored |-> {}]
    ELSE [result |-> Returned(classifyScored(t, logProbabilitiesOf(t, Categories))),
          scored |-> Range(Categories)]

\* classify with its guard for blank text before its guard for training
nb_classifyBlankFirst(isTrained, t) ==
    IF IsBlank(t)
    THEN [result |-> Returned([category |-> "other", confidence |-> Num(0),
                               probabilities |-> <<>>, keywords |-> <<>>]),
          scored |-> {}]
    ELSE IF ~isTrained
    THEN [result |-> Raised("Classifier must be trained before classification"),
          scored |-> {}]
    ELSE [result |-> Returned(classifyScored(t, logProbabilitiesOf(t, Categories))),
          scored |-> Range(Categories)]

\* What classify returns or throws, and the categories it scored, when
\* this.trained is isTrained
nb_classifyWhen(isTrained, t) ==
    IF ~isTrained
    THEN [result |-> Raised("Classifier must be trained before classification"),
          scored |-> {}]
    ELSE IF IsBlank(t)
    THEN [result |-> Returned([category |-> "other", confidence |-> Num(0),
                               probabilities |-> <<>>, keywords |-> <<>>]),
          scored |-> {}]
    ELSE [result |-> Returned(classifyScored(t, logProbabilitiesOf(t, Categories))),
          scored |-> Range(Categories)]

nb_classifyRun(t) == nb_classifyWhen(trained, t)

nb_classify(t) == nb_classifyRun(t).result

\* probability >= threshold, for a threshold in hundredths
AtLeast(probability, hundredths) ==
    ~probability.nan /\ probability.n >= hundredths * (Scale \div 100)

\* What detectMultiIntent returns or throws
\* Object.entries(probabilities).filter(([category, prob]) =>
\*     prob >= threshold && category !== 'other').map(([category]) => category)
significantIntents(probabilities, hundredths) ==
    LET Significant(category) ==
            /\ category \in DOMAIN probabilities
            /\ AtLeast(probabilities[category], hundredths)
            /\ category # "other"
    IN  Filter(Categories, Significant)

\* intents.length > 0 ? intents : [result.category]
intentsOr(intents, category) == IF Len(intents) > 0 THEN intents ELSE <<category>>

\* detectMultiIntent falling back to "other" instead of the predicted category
nb_detectedOrOther(result, hundredths) ==
    IF result.raised THEN result
    ELSE Returned(intentsOr(significantIntents(result.value.probabilities, hundredths),
                            "other"))

nb_detectedFrom(result, hundredths) ==
    IF result.raised THEN result
    ELSE Returned(intentsOr(significantIntents(result.value.probabilities, hundredths),
                            result.value.category))

nb_detectMultiIntent(t, hundredths) == nb_detectedFrom(nb_classify(t), hundredths)

\* detectMultiIntent's default threshold, in hundredths
DefaultThreshold == 30

urgencyLevels == <<"high", "medium", "low">>

nb_urgencyKeywords ==
    [high |-> <<"emergency", "urgent", "asap", "immediately", "now", "today">>,
     medium |-> <<"soon", "quickly", "fast", "tomorrow">>,
     low |-> <<"eventually", "sometime", "planning", "future">>]

\* The first level of levels with a keyword in lowerText
RECURSIVE nb_urgencyFrom(_, _)
RECURSIVE nb_urgencyAt(_, _, _)
nb_urgencyFrom(lowerText, levels) ==
    IF levels = <<>> THEN [isUrgent |-> FALSE, urgencyLevel |-> "low", keywords |-> <<>>]
    ELSE nb_urgencyAt(lowerText, levels, Matches(lowerText, nb_urgencyKeywords[Head(levels)]))

\* if (found.length > 0) { ...; break }, with found the keywords of the first level
nb_urgencyAt(lowerText, levels, found) ==
    IF Len(found) > 0
    THEN [isUrgent |-> Head(levels) # "low", urgencyLevel |-> Head(levels),
          keywords |-> found]
    ELSE nb_urgencyFrom(lowerText, Tail(levels))

\* The urgency with the levels examined from low to high
nb_urgencyLowFirst(t) == nb_urgencyFrom(toLowerCase(t), <<"low", "medium", "high">>)

nb_urgency(t) == nb_urgencyFrom(toLowerCase(t), urgencyLevels)

UnderWords == <<"under", "below", "less than", "maximum", "max">>
AroundWords == <<"around", "about", "approximately">>

\* The price patterns; the first two ignore case, and are matched on the
\* lower-cased text with their words in lower case
pricePatterns ==
    <<[pattern |-> Cat(<<AnyOf(UnderWords), Spaces0, Opt(Lit("$")), Cap(AmountPattern)>>),
       ignoreCase |-> TRUE],
      [pattern |-> Cat(<<AnyOf(AroundWords), Spaces0, Opt(Lit("$")), Cap(AmountPattern)>>),
       ignoreCase |-> TRUE],
      [pattern |-> DollarAmountPattern, ignoreCase |-> FALSE]>>

\* The budget of the first of patterns that matches
RECURSIVE nb_budgetFrom(_, _)
RECURSIVE nb_budgetAt(_, _, _)
nb_budgetFrom(t, patterns) ==
    IF patterns = <<>> THEN NoBudget
    ELSE nb_budgetAt(t, patterns,
                     RegexMatch(Head(patterns).pattern,
                                IF Head(patterns).ignoreCase THEN toLowerCase(t) ELSE t))

\* if (match) { ...; break }, with match the match of the first pattern
nb_budgetAt(t, patterns, match) ==
    IF match.matched
    THEN [hasBudget |-> TRUE,
          amount |-> parseFloat(replaceFirstComma(CapturedText(t, match))),
          currency |-> "USD",
          type |-> IF RegexTest(AnyOf(UnderWords), toLowerCase(MatchedText(t, match)))
                   THEN "under" ELSE "around"]
    ELSE nb_budgetFrom(t, Tail(patterns))

\* The budget with the bare amount tried first
nb_budgetBareFirst(t) ==
    nb_budgetFrom(t, <<pricePatterns[3], pricePatterns[1], pricePatterns[2]>>)

nb_budget(t) == nb_budgetFrom(t, pricePatterns)

\* shouldRouteToLLM without the test of the text's length
nb_shouldRouteWhateverLength(classification, multiIntent, urgency, budget, t) ==
    \/ ~classification.confidence.nan /\ classification.confidence.n < 40
    \/ Len(multiIntent) > 1
    \/ urgency.isUrgent
    \/ budget.hasBudget

\* classification.confidence < 0.4 || multiIntent.length > 1 || urgency.isUrgent ||
\* budget.hasBudget || text.length > 100
nb_shouldRouteToLLM(classification, multiIntent, urgency, budget, t) ==
    \/ ~classification.confidence.nan /\ classification.confidence.n < 40
    \/ Len(multiIntent) > 1
    \/ urgency.isUrgent
    \/ budget.hasBudget
    \/ Len(t) > 100

\* What analyzeComprehensive returns or throws
nb_analysis(classification, multiIntent, urgency, budget, t) ==
    [classification |-> classification,
     multiIntent |-> multiIntent,
     urgency |-> urgency,
     budget |-> budget,
     confidence |-> classification.confidence,
     shouldRouteToLLM |->
         nb_shouldRouteToLLM(classification, multiIntent, urgency, budget, t)]

nb_analyzed(t, classified, detected) ==
    IF classified.raised THEN classified
    ELSE IF detected.raised THEN detected
    ELSE Returned(nb_analysis(classified.value, detected.value,
                              nb_urgency(t), nb_budget(t), t))

\* What analyzeComprehensive returns or throws
nb_analyzeComprehensive(t) ==
    nb_analyzed(t, nb_classify(t), nb_detectMultiIntent(t, DefaultThreshold))

----------------------------------------------------------------------------------------------------------------------------------------------------
(* The chat component: analyzeSearchIntent *)

LowerSet == CharsOf(LowerChars)
\* [a-zA-Z\s]
LetterOrSpaceSet == LowerSet \cup UpperSet \cup SpaceSet

UpperOf == [c \in LowerSet |->
               Ch(UpperChars, CHOOSE i \in 1..Len(LowerChars) : Ch(LowerChars, i) = c)]

\* s.replace(r, with) for a global r that matches no empty string
RECURSIVE ReplaceAllFrom(_, _, _, _)
RECURSIVE ReplaceAllAt(_, _, _, _, _)
ReplaceAllFrom(r, s, from, with) ==
    ReplaceAllAt(r, s, from, with, RegexMatchFrom(r, s, from))

\* The rest of s from from on, with m the next match
ReplaceAllAt(r, s, from, with, m) ==
    IF ~m.matched THEN SubSeq(s, from, Len(s))
    ELSE SubSeq(s, from, m.at - 1) \o with \o ReplaceAllFrom(r, s, m.e, with)

ReplaceAll(r, s, with) == ReplaceAllFrom(r, s, 1, with)

\* s.split(' ')  (by halves)
RECURSIVE SplitOnSpace(_)
SplitOnSpace(s) ==
    IF Len(s) = 0 THEN <<"">>
    ELSE IF Len(s) = 1 THEN (IF s = " " THEN <<"", "">> ELSE <<s>>)
    ELSE LET half == Len(s) \div 2
             left == SplitOnSpace(SubSeq(s, 1, half))
             right == SplitOnSpace(SubSeq(s, half + 1, Len(s)))
         IN  SubSeq(left, 1, Len(left) - 1)
             \o <<left[Len(left)] \o Head(right)>>
             \o Tail(right)

\* words.join(' ')
RECURSIVE JoinWithSpace(_)
JoinWithSpace(words) ==
    IF words = <<>> THEN ""
    ELSE IF Len(words) = 1 THEN words[1]
    ELSE LET half == Len(words) \div 2
         IN  JoinWithSpace(SubSeq(words, 1, half)) \o " "
             \o JoinWithSpace(SubSeq(words, half + 1, Len(words)))

\* word.charAt(0).toUpperCase() + word.slice(1)
Capitalize(word) ==
    IF word = "" THEN ""
    ELSE (IF Ch(word, 1) \in LowerSet THEN UpperOf[Ch(word, 1)] ELSE Ch(word, 1))
         \o SubSeq(word, 2, Len(word))

MapCapitalize(words) == [i \in DOMAIN words |-> Capitalize(words[i])]

\* ([a-zA-Z\s]+?) and the (?:\?|$|,) after it
LazyName == Cap(Chars(LetterOrSpaceSet, 1, Unbounded, FALSE))
NameEnd == Alt(<<Lit("?"), Eol, Lit(",")>>)

destinationPatterns ==
    <<Cat(<<AnyOf(<<"places", "activities", "things to do", "attractions", "visit",
                    "explore", "see">>),
            Spaces1, AnyOf(<<"in", "at", "around">>), Spaces1, LazyName, NameEnd>>),
      Cat(<<AnyOf(<<"hotel", "hotels", "stay", "accommodation", "lodge", "resort">>),
            Spaces1, AnyOf(<<"in", "at", "around">>), Spaces1, LazyName, NameEnd>>),
      Cat(<<AnyOf(<<"flight", "flights", "fly", "plane", "airport">>),
            Spaces1, AnyOf(<<"to", "into">>), Spaces1, LazyName, NameEnd>>),
      Cat(<<AnyOf(<<"go", "travel", "trip">>),
            Spaces1, AnyOf(<<"to", "into">>), Spaces1, LazyName, NameEnd>>),
      Cat(<<Bol, LazyName, Spaces1,
            AnyOf(<<"places", "attractions", "activities", "things to do", "hotels",
                    "flights">>),
            Alt(<<Lit("?"), Eol>>)>>),
      Cat(<<AnyOf(<<"what", "where", "show", "find", "get">>), Spaces1,
            Opt(Cat(<<Lit("me"), Spaces1>>)),
            Opt(Cat(<<Lit("some"), Spaces1>>)),
            Opt(Cat(<<Lit("good"), Spaces1>>)),
            Opt(AnyOf(<<"places", "attractions", "activities", "things", "hotels",
                        "flights">>)),
            Spaces0,
            Opt(AnyOf(<<"in", "at", "around", "for", "to">>)),
            Spaces1,
            Cap(Chars(LetterOrSpaceSet, 2, 30, TRUE)),
            Alt(<<Lit("?"), Eol>>)>>)>>

\* /\b(the|a|an)\b/g
ArticlePattern == Cat(<<WordBoundary, AnyOf(<<"the", "a", "an">>), WordBoundary>>)

\* match[1].trim().replace(/\b(the|a|an)\b/g, '').replace(/\s+/g, ' ')
\*         .split(' ').map(capitalize).join(' ')
cleanDestination(captured) ==
    JoinWithSpace(MapCapitalize(SplitOnSpace(
        ReplaceAll(Spaces1, ReplaceAll(ArticlePattern, trim(captured), ""), " "))))

genericWords == <<"there", "here", "somewhere", "anywhere", "places", "city", "town">>

\* The destination the first accepted pattern of patterns gives
RECURSIVE destinationFrom(_, _)
RECURSIVE destinationAt(_, _, _)
RECURSIVE destinationCleaned(_, _, _)
destinationFrom(lowerMessage, patterns) ==
    IF patterns = <<>> THEN Undefined
    ELSE destinationAt(lowerMessage, patterns, RegexMatch(Head(patterns), lowerMessage))

\* if (match && match[1]) { ... }, with match the match of the first pattern
destinationAt(lowerMessage, patterns, match) ==
    IF match.matched /\ CapturedText(lowerMessage, match) # ""
    THEN destinationCleaned(lowerMessage, patterns,
                            cleanDestination(CapturedText(lowerMessage, match)))
    ELSE destinationFrom(lowerMessage, Tail(patterns))

\* if (!genericWords.includes(...) && destination.length > 1) break;
\* else destination = undefined
destinationCleaned(lowerMessage, patterns, destination) ==
    IF toLowerCase(destination) \notin Range(genericWords) /\ Len(destination) > 1
    THEN Defined(destination)
    ELSE destinationFrom(lowerMessage, Tail(patterns))

\* /^[A-Z][a-z]+/
CapitalizedPattern ==
    Cat(<<Bol, Chars(UpperSet, 1, 1, TRUE), Chars(LowerSet, 1, Unbounded, TRUE)>>)

excludedWords == <<"I", "What", "Where", "When", "How", "Can", "Show", "Find", "Get">>

\* The capitalized words of the message, when no pattern gave a destination
capitalizedWordsOf(message) ==
    LET Capitalized(word) ==
            RegexTest(CapitalizedPattern, word) /\ word \notin Range(excludedWords)
    IN  Filter(SplitSpaces(message), Capitalized)

joinedOrUndefined(capitalizedWords) ==
    IF Len(capitalizedWords) > 0 THEN Defined(JoinWithSpace(capitalizedWords))
    ELSE Undefined

capitalizedDestination(message) == joinedOrUndefined(capitalizedWordsOf(message))

\* if (!destination) { ... }
destinationOr(destination, message) ==
    IF destination.defined THEN destination ELSE capitalizedDestination(message)

extractDestination(message) ==
    destinationOr(destinationFrom(toLowerCase(message), destinationPatterns), message)

flightKeywords == <<"flight", "flights", "fly", "plane", "airport", "departure",
                    "arrival", "round trip", "one way">>
hotelKeywords == <<"hotel", "hotels", "accommodation", "stay", "lodge", "resort",
                   "booking", "room">>
placeKeywords == <<"places", "attractions", "activities", "things to do", "sightseeing",
                   "visit", "see", "explore", "tourist">>

Some(lowerMessage, keywords) == \E i \in DOMAIN keywords : includes(lowerMessage, keywords[i])

Needs(flights, hotels, places) ==
    [needsFlights |-> flights, needsHotels |-> hotels, needsPlaces |-> places]

\* The flags of the keywords found, without the default
keywordNeedsAsFound(hasFlightKeywords, hasHotelKeywords, hasPlaceKeywords) ==
    Needs(hasFlightKeywords, hasHotelKeywords, hasPlaceKeywords)

\* The flags when the category is no travel category
keywordNeeds(hasFlightKeywords, hasHotelKeywords, hasPlaceKeywords) ==
    IF hasFlightKeywords \/ hasHotelKeywords \/ hasPlaceKeywords
    THEN Needs(hasFlightKeywords, hasHotelKeywords, hasPlaceKeywords)
    ELSE Needs(TRUE, TRUE, TRUE)

\* The three flags of the plan
resolveNeeds(classification, multiIntent, destination, lowerMessage) ==
    IF Len(multiIntent) > 1
    THEN Needs("flights" \in Range(multiIntent), "hotels" \in Range(multiIntent),
               "places" \in Range(multiIntent))
    ELSE IF classification.category = "flights"
    THEN Needs(TRUE, FALSE,
               ~classification.confidence.nan /\ classification.confidence.n > 70
                   /\ destination.defined)
    ELSE IF classification.category = "hotels"
    THEN Needs(FALSE, TRUE, destination.defined)
    ELSE IF classification.category = "places"
    THEN Needs(FALSE, FALSE, TRUE)
    ELSE keywordNeeds(Some(lowerMessage, flightKeywords),
                      Some(lowerMessage, hotelKeywords),
                      Some(lowerMessage, placeKeywords))

\* return { needsFlights, needsHotels, needsPlaces, destination }
planOf(needs, destination) ==
    [needsFlights |-> needs.needsFlights,
     needsHotels |-> needs.needsHotels,
     needsPlaces |-> needs.needsPlaces,
     destination |-> destination]

planFor(classification, multiIntent, destination, lowerMessage) ==
    planOf(resolveNeeds(classification, multiIntent, destination, lowerMessage),
           destination)

\* The classifier modules that export NaiveBayesChatClassifier
Classifiers == {"probabilistic", "keyword"}

\* nbClassifier.analyzeComprehensive(message)
bound_analyzeComprehensive(classifier, message) ==
    IF classifier = "keyword" THEN fast_analyzeComprehensive(message)
    ELSE nb_analyzeComprehensive(message)

\* What analyzeSearchIntent returns or throws, given what analyzeComprehensive gave
analyzeSearchIntent(comprehensive, message) ==
    IF comprehensive.raised THEN comprehensive
    ELSE IF "matchedKeywords" \notin DOMAIN comprehensive.value.classification
    THEN Raised("TypeError")   \* classification.matchedKeywords.slice
    ELSE Returned(planFor(comprehensive.value.classification,
                          comprehensive.value.multiIntent,
                          extractDestination(message), toLowerCase(message)))

----------------------------------------------------------------------------
(* The texts of the calls *)

MaxFragments == 2

Fragments == <<
    "book flights to Paris",
    "find hotels in Rome",
    "visit the museums",
    " ",
    "see the weather in Oslo today",
    "constructor",
    "for under $1,250.50",
    "if it is ok, i am to go to an old town to do a bit of sightseeing, or so; it is up to us to be in it by 10 am" >>

\* The fragments at the positions of chosen, in order, joined by single spaces
RECURSIVE Joined(_)
Joined(chosen) ==
    IF chosen = {} THEN ""
    ELSE LET last == Greatest(chosen)
         IN  IF chosen = {last} THEN Fragments[last]
             ELSE Joined(chosen \ {last}) \o " " \o Fragments[last]

\* The texts of at most MaxFragments fragments
Texts == {Joined(chosen) : chosen \in {c \in SUBSET DOMAIN Fragments :
                                          Cardinality(c) <= MaxFragments}}

\* The thresholds of the calls of detectMultiIntent, in hundredths
Thresholds == {DefaultThreshold, 50}

----------------------------------------------------------------------------
(* The state machine: a call runs to completion, then its caller takes over *)

NoCall == [none |-> TRUE]

Idle ==
    /\ op = "idle"
    /\ text = ""
    /\ threshold = 0
    /\ ret = NoCall
    /\ scored = {}
    /\ analyzed = NoCall

\* const nbClassifier = new NaiveBayesChatClassifier(), of either module of that
\* name; the probabilistic one runs initializeCategories() and train()
Init ==
    /\ bound \in Classifiers
    /\ trainingData = embeddedTrainingData
    /\ LET m == train(embeddedTrainingData)
       IN  /\ vocabulary = m.vocabulary
           /\ categoryWordCounts = m.categoryWordCounts
           /\ categoryCounts = m.categoryCounts
           /\ totalDocuments = m.totalDocuments
    /\ trained = TRUE
    /\ memo = NoCall
    /\ info = NoCall
    /\ Idle
    /\ isTyping = FALSE
    /\ messages = <<[flow |-> 0, kind |-> "welcome"]>>
    /\ flows = <<>>

Called(name, t, hundredths, result, categories, analysis) ==
    /\ op' = name
    /\ text' = t
    /\ threshold' = hundredths
    /\ ret' = result
    /\ scored' = categories
    /\ analyzed' = analysis
    /\ UNCHANGED <<model, bound, memo, info, chat>>

FastClassify ==
    /\ op = "idle" /\ bound = "keyword"
    /\ \E t \in Texts :
        LET run == fast_classifyRun(t)
        IN  Called("fast_classify", t, 0, run.result, run.scored, NoCall)

FastDetectMultiIntent ==
    /\ op = "idle" /\ bound = "keyword"
    /\ \E t \in Texts :
        Called("fast_detectMultiIntent", t, 0, fast_detectMultiIntent(t), {}, NoCall)

FastAnalyzeComprehensive ==
    /\ op = "idle" /\ bound = "keyword"
    /\ \E t \in Texts :
        Called("fast_analyzeComprehensive", t, 0, fast_analyzeComprehensive(t), {}, NoCall)

NbClassify ==
    /\ op = "idle" /\ bound = "probabilistic"
    /\ \E t \in Texts :
        LET run == nb_classifyRun(t)
        IN  Called("nb_classify", t, 0, run.result, run.scored, NoCall)

NbDetectMultiIntent ==
    /\ op = "idle" /\ bound = "probabilistic"
    /\ \E t \in Texts, hundredths \in Thresholds :
        Called("nb_detectMultiIntent", t, hundredths, nb_detectMultiIntent(t, hundredths),
               {}, NoCall)

NbAnalyzeComprehensive ==
    /\ op = "idle" /\ bound = "probabilistic"
    /\ \E t \in Texts :
        Called("nb_analyzeComprehensive", t, 0, nb_analyzeComprehensive(t), {}, NoCall)

AnalyzeSearchIntent ==
    /\ op = "idle"
    /\ \E message \in Texts :
        LET analysis == bound_analyzeComprehensive(bound, message)
        IN  Called("analyzeSearchIntent", message, 0,
                   analyzeSearchIntent(analysis, message), {}, analysis)

\* The caller goes on with the result
Return ==
    /\ op # "idle"
    /\ op' = "idle"
    /\ text' = ""
    /\ threshold' = 0
    /\ ret' = NoCall
    /\ scored' = {}
    /\ analyzed' = NoCall
    /\ UNCHANGED <<model, bound, memo, info, chat>>

Next ==
    \/ FastClassify
    \/ FastDetectMultiIntent
    \/ FastAnalyzeComprehensive
    \/ NbClassify
    \/ NbDetectMultiIntent
    \/ NbAnalyzeComprehensive
    \/ AnalyzeSearchIntent
    \/ Return

Spec == Init /\ [][Next]_vars

----------------------------------------------------------------------------
(* The utterances of the auxiliary signals: urgency words of every tier,   *)
(* budgets of every pattern, destinations of several patterns, generic     *)
(* words, and single intents with and without a destination                *)

MaxPhrases == 2

Phrases == <<
    "tell me something",
    "jet soon",
    "fly to rome,",
    "eventually stay in town,",
    "see around town, stay in oslo,",
    "you know the forecast, $300.75",
    "about 200 tomorrow in Lima",
    "hotels in Rome under $150",
    "nightlife, max $1,250,000",
    "trip to a, lodge at b," >>

\* The phrases at the positions of chosen, in order, joined by single spaces
RECURSIVE JoinedPhrases(_)
JoinedPhrases(chosen) ==
    IF chosen = {} THEN ""
    ELSE LET last == Greatest(chosen)
         IN  IF chosen = {last} THEN Phrases[last]
             ELSE JoinedPhrases(chosen \ {last}) \o " " \o Phrases[last]

\* The utterances of at most MaxPhrases phrases
Utterances == {JoinedPhrases(chosen) : chosen \in {c \in SUBSET DOMAIN Phrases :
                                                      Cardinality(c) <= MaxPhrases}}

FastAnalyzeUtterance ==
    /\ op = "idle" /\ bound = "keyword"
    /\ \E t \in Utterances :
        Called("fast_analyzeComprehensive", t, 0, fast_analyzeComprehensive(t), {}, NoCall)

NbAnalyzeUtterance ==
    /\ op = "idle" /\ bound = "probabilistic"
    /\ \E t \in Utterances :
        Called("nb_analyzeComprehensive", t, 0, nb_analyzeComprehensive(t), {}, NoCall)

AnalyzeUtteranceIntent ==
    /\ op = "idle"
    /\ \E message \in Utterances :
        LET analysis == bound_analyzeComprehensive(bound, message)
        IN  Called("analyzeSearchIntent", message, 0,
                   analyzeSearchIntent(analysis, message), {}, analysis)

SignalNext ==
    \/ FastAnalyzeUtterance
    \/ NbAnalyzeUtterance
    \/ AnalyzeUtteranceIntent
    \/ Return

SignalSpec == Init /\ [][SignalNext]_vars

----------------------------------------------------------------------------
(* The classifier object over its life: the reads of a few texts, between  *)
(* them addTrainingData and getModelInfo.  The caller keeps the first      *)
(* classify since the model was trained, to compare later ones with it.    *)

MaxAdded == 2
MaxReads == 2

\* The samples added: one with words the vocabulary lacks, one without
Samples == <<
    [text |-> "cruise to alaska", category |-> "places"],
    [text |-> "book a flight", category |-> "flights"] >>

RECURSIVE SequencesOver(_, _)
SequencesOver(elements, length) ==
    IF length = 0 THEN {<<>>}
    ELSE {Append(seq, e) : seq \in SequencesOver(elements, length - 1),
                           e \in Range(elements)}

\* A sample whose only token names a property every object inherits
InheritedSample == [text |-> "constructor", category |-> "other"]

\* The arrays passed to addTrainingData
SampleLists ==
    UNION {SequencesOver(Append(Samples, InheritedSample), length) :
               length \in 0..MaxAdded}

\* The texts read
Probes == {"", "book flights to Paris", "cruise to alaska", "constructor", "is it ok?"}

\* the samples in place of the training data
replaceTrainingData(samples) == samples

\* this.trainingData.push(...samples)
addTrainingData(samples) == trainingData \o samples

\* getModelInfo()
getModelInfo ==
    [vocabularySize |-> Cardinality(vocabulary),
     totalDocuments |-> totalDocuments,
     categoryDistribution |-> categoryCounts,
     trained |-> trained]

\* nbClassifier.classify(t)
bound_classifyRun(classifier, t) ==
    IF classifier = "keyword" THEN fast_classifyRun(t) ELSE nb_classifyRun(t)

\* nbClassifier.detectMultiIntent(t, threshold)
bound_detectMultiIntent(classifier, t, hundredths) ==
    IF classifier = "keyword" THEN fast_detectMultiIntent(t)
    ELSE nb_detectMultiIntent(t, hundredths)

\* The name of a method of the classifier behind the import
MethodOf(classifier, method) ==
    (IF classifier = "keyword" THEN "fast_" ELSE "nb_") \o method

\* What the caller keeps: the text and the result of the first classify, and
\* the number of later reads, as far as MaxReads
Kept(t, result) ==
    IF memo = NoCall THEN [text |-> t, result |-> result, later |-> 0]
    ELSE [memo EXCEPT !.later = Min(@ + 1, MaxReads)]

Later == IF memo = NoCall THEN memo ELSE Kept(memo.text, memo.result)

\* The model-info value a caller holds, once train() has run again: its
\* categoryDistribution is the object this.categoryCounts itself, which is
\* assigned once and whose properties initializeCategories and train assign
\* in place; vocabularySize, totalDocuments and trained are copies
HeldAfterTrain(held, counts) ==
    IF held = NoCall THEN held ELSE [held EXCEPT !.categoryDistribution = counts]

\* A call that adds the words of its text to the vocabulary
ReadLearning(name, t, hundredths, result, categories, kept) ==
    /\ op' = name
    /\ text' = t
    /\ threshold' = hundredths
    /\ ret' = result
    /\ scored' = categories
    /\ analyzed' = NoCall
    /\ memo' = kept
    /\ vocabulary' = vocabulary \cup Range(tokenize(t))
    /\ UNCHANGED <<trainingData, categoryWordCounts, categoryCounts,
                   totalDocuments, trained, bound, chat>>

\* A call that assigns no field of the classifier
Read(name, t, hundredths, result, categories, kept) ==
    /\ op' = name
    /\ text' = t
    /\ threshold' = hundredths
    /\ ret' = result
    /\ scored' = categories
    /\ analyzed' = NoCall
    /\ memo' = kept
    /\ UNCHANGED <<model, bound, chat>>

\* classify, of which the caller keeps the first result
Classify ==
    /\ op = "idle"
    /\ \E t \in Probes :
        LET run == bound_classifyRun(bound, t)
        IN  Read(MethodOf(bound, "classify"), t, 0, run.result, run.scored,
                 Kept(t, run.result))
    /\ UNCHANGED info

DetectMultiIntent ==
    /\ op = "idle"
    /\ \E t \in Probes, hundredths \in Thresholds :
        /\ bound = "keyword" => hundredths = DefaultThreshold
        /\ Read(MethodOf(bound, "detectMultiIntent"), t,
                IF bound = "keyword" THEN 0 ELSE hundredths,
                bound_detectMultiIntent(bound, t, hundredths), {}, Later)
    /\ UNCHANGED info

AnalyzeComprehensive ==
    /\ op = "idle"
    /\ \E t \in Probes :
        Read(MethodOf(bound, "analyzeComprehensive"), t, 0,
             bound_analyzeComprehensive(bound, t), {}, Later)
    /\ UNCHANGED info

GetModelInfo ==
    /\ op = "idle" /\ bound = "probabilistic"
    /\ Read("getModelInfo", "", 0, Returned(getModelInfo), {}, Later)
    /\ UNCHANGED info

\* getModelInfo(), of which the caller holds the value
HoldModelInfo ==
    /\ op = "idle" /\ bound = "probabilistic"
    /\ Read("getModelInfo", "", 0, Returned(getModelInfo), {}, Later)
    /\ info' = getModelInfo

\* train() at the end of addTrainingData: the fields recomputed from data
Trained(data, m) ==
    /\ trainingData' = data
    /\ vocabulary' = m.vocabulary
    /\ categoryWordCounts' = m.categoryWordCounts
    /\ categoryCounts' = m.categoryCounts
    /\ totalDocuments' = m.totalDocuments
    /\ trained' = TRUE

Retrained(data) == Trained(data, train(data))

\* addTrainingData(samples); what the caller kept is of the model before
AddTrainingData ==
    /\ op = "idle" /\ bound = "probabilistic"
    /\ \E samples \in SampleLists :
        /\ Len(trainingData) + Len(samples) <= Len(embeddedTrainingData) + MaxAdded
        /\ Retrained(addTrainingData(samples))
    /\ op' = "addTrainingData"
    /\ text' = ""
    /\ threshold' = 0
    /\ ret' = Returned(Undefined)
    /\ scored' = {}
    /\ analyzed' = NoCall
    /\ memo' = NoCall
    /\ info' = HeldAfterTrain(info, categoryCounts')
    /\ UNCHANGED <<bound, chat>>

LifeNext ==
    \/ Classify
    \/ DetectMultiIntent
    \/ AnalyzeComprehensive
    \/ GetModelInfo
    \/ AddTrainingData
    \/ Return

LifeSpec == Init /\ [][LifeNext]_vars

\* The calls of a caller that holds on to the model-info values it gets
InfoNext ==
    \/ HoldModelInfo
    \/ AddTrainingData
    \/ Return

InfoSpec == Init /\ [][InfoNext]_vars

----------------------------------------------------------------------------
(* The chat send flow: handleSendMessage on a message, with every response *)
(* the endpoints can give to the requests it makes.  What the flow did is  *)
(* kept as the requests it made, in order, the messages it appended and    *)
(* isTyping as it leaves it.                                               *)

\* What a fetch can come to: the promise rejects; the response is not ok; the
\* body has success false; success true without and with the optional parts
\* (extracted_params.destination_city of flights, a non-empty data of places)
Responses == {"rejected", "notOk", "unsuccessful", "bare", "successful"}

\* result.success
Succeeded == {"bare", "successful"}

\* http://localhost:8000/api/chat/natural
NaturalEndpoint == "chat/natural"

\* flightsResult.extracted_params.destination_city, when the body has one
ExtractedCity == "Rome"

\* `What are the top attractions and things to do in ${searchIntent.destination}?`
placesQuestion(destination) ==
    "What are the top attractions and things to do in " \o destination \o "?"

\* The messages typed into the input
Inputs == {
    "  ",
    "tell me something",
    "book flights to Paris",
    "visit the museums",
    "see around town, stay in oslo,",
    "you know the forecast, $300.75",
    "we may want to stay in oslo, if it is not too far for us" }

\* The flow that returned at once
NotSent == [fetched |-> <<>>, messages |-> <<>>, answeredAfter |-> 0,
            isTyping |-> FALSE]

\* setMessages([...prev, userMessage]); setIsTyping(true)
Sent == [fetched |-> <<>>, messages |-> <<"user">>, answeredAfter |-> 0,
         isTyping |-> TRUE]

\* await fetch(endpoint, {body: ...}), responded to by response
Fetched(flow, endpoint, body, response) ==
    [flow EXCEPT !.fetched = Append(@, [endpoint |-> endpoint, body |-> body,
                                        response |-> response])]

\* The bot message without the finally block
AnsweredTyping(flow, kind) ==
    [flow EXCEPT !.messages = Append(@, kind),
                 !.answeredAfter = Len(flow.fetched)]

\* setMessages((prev) => [...prev, botMessage]), after the requests made so far,
\* and the end of the try statement: finally setIsTyping(false)
Answered(flow, kind) ==
    [flow EXCEPT !.messages = Append(@, kind),
                 !.answeredAfter = Len(flow.fetched),
                 !.isTyping = FALSE]

\* catch (error) with the technical error message at once
CaughtUnasked(flow, currentInput) == {Answered(flow, "error")}

\* catch (error): the natural language fallback, and the technical error
\* message if it gives no answer
Caught(flow, currentInput) ==
    {Answered(Fetched(flow, NaturalEndpoint, currentInput, response),
              IF response \in Succeeded THEN "natural" ELSE "error") :
        response \in Responses}

\* No successful API results: the natural language response, and
\* throw new Error(`Unable to find ...`) if it gives no answer
NoResults(flow, currentInput) ==
    UNION {IF response \in Succeeded
           THEN {Answered(Fetched(flow, NaturalEndpoint, currentInput, response),
                          "natural")}
           ELSE Caught(Fetched(flow, NaturalEndpoint, currentInput, response),
                       currentInput) :
              response \in Responses}

\* hasSuccessfulResults: the combined data, after the natural language fallback
\* for the places of a destination whose search gave none
Combined(flow, searchIntent, placesResult) ==
    IF /\ searchIntent.needsPlaces
       /\ searchIntent.destination.defined
       /\ placesResult # "successful"
    THEN {Answered(Fetched(flow, NaturalEndpoint,
                           placesQuestion(searchIntent.destination.value), response),
                   "results") :
             response \in Responses}
    ELSE {Answered(flow, "results")}

\* flightsResult?.success || hotelsResult?.success || placesResult?.success
Searched(flow, currentInput, searchIntent, flightsResult, hotelsResult, placesResult) ==
    IF {flightsResult, hotelsResult, placesResult} \cap Succeeded # {}
    THEN Combined(flow, searchIntent, placesResult)
    ELSE NoResults(flow, currentInput)

\* if (destination): the places search of it
PlacesOf(flow, currentInput, searchIntent, flightsResult, hotelsResult, destination) ==
    IF destination.defined
    THEN UNION {Searched(Fetched(flow, "places/search", destination.value, response),
                         currentInput, searchIntent, flightsResult, hotelsResult,
                         response) :
                   response \in Responses}
    ELSE Searched(flow, currentInput, searchIntent, flightsResult, hotelsResult, "none")

\* if (searchIntent.needsPlaces), with searchIntent.destination or else
\* flightsResult.extracted_params.destination_city
SearchPlaces(flow, currentInput, searchIntent, flightsResult, hotelsResult) ==
    IF searchIntent.needsPlaces
    THEN PlacesOf(flow, currentInput, searchIntent, flightsResult, hotelsResult,
                  IF searchIntent.destination.defined THEN searchIntent.destination
                  ELSE IF flightsResult = "successful" THEN Defined(ExtractedCity)
                  ELSE Undefined)
    ELSE Searched(flow, currentInput, searchIntent, flightsResult, hotelsResult, "none")

\* if (searchIntent.needsHotels)
SearchHotels(flow, currentInput, searchIntent, flightsResult) ==
    IF searchIntent.needsHotels
    THEN UNION {SearchPlaces(Fetched(flow, "hotels/search", currentInput, response),
                             currentInput, searchIntent, flightsResult, response) :
                   response \in Responses}
    ELSE SearchPlaces(flow, currentInput, searchIntent, flightsResult, "none")

\* if (searchIntent.needsFlights): a rejected fetch and a response that is not ok
\* (throw new Error(`Flights API Error: ...`)) end the try block
SearchFlights(flow, currentInput, searchIntent) ==
    IF searchIntent.needsFlights
    THEN UNION {IF response \in {"rejected", "notOk"}
                THEN Caught(Fetched(flow, "flights/search", currentInput, response),
                            currentInput)
                ELSE SearchHotels(Fetched(flow, "flights/search", currentInput, response),
                                  currentInput, searchIntent, response) :
                   response \in Responses}
    ELSE SearchHotels(flow, currentInput, searchIntent, "none")

\* comprehensive.classification.category === 'other' &&
\* comprehensive.classification.confidence > 0.8
nonTravel(classification) ==
    /\ classification.category = "other"
    /\ ~classification.confidence.nan
    /\ classification.confidence.n > 80

\* The non-travel query: the natural language response, and the searches if it
\* gives no answer
Tried(flow, currentInput, comprehensive, searchIntent) ==
    IF searchIntent.raised THEN Caught(flow, currentInput)
    ELSE IF nonTravel(comprehensive.classification)
    THEN UNION {IF response \in Succeeded
                THEN {Answered(Fetched(flow, NaturalEndpoint, currentInput, response),
                               "natural")}
                ELSE SearchFlights(Fetched(flow, NaturalEndpoint, currentInput, response),
                                   currentInput, searchIntent.value) :
                   response \in Responses}
    ELSE SearchFlights(flow, currentInput, searchIntent.value)

\* What handleSendMessage can come to, given what analyzeComprehensive gave
handleSendMessage(inputValue, comprehensive) ==
    IF comprehensive.raised THEN {comprehensive}
    ELSE {Returned(flow) :
             flow \in Tried(Sent, inputValue, comprehensive.value,
                            analyzeSearchIntent(comprehensive, inputValue))}

\* A message accepted: isTyping is false between the flows
MessageSent(inputValue, comprehensive) ==
    \E outcome \in handleSendMessage(inputValue, comprehensive) :
        Called("handleSendMessage", inputValue, 0, outcome, {}, comprehensive)

\* if (!inputValue.trim() || isTyping) return
HandleSendMessage ==
    /\ op = "idle"
    /\ \E inputValue \in Inputs :
        IF trim(inputValue) = ""
        THEN Called("handleSendMessage", inputValue, 0, Returned(NotSent), {}, NoCall)
        ELSE MessageSent(inputValue, bound_analyzeComprehensive(bound, inputValue))

SendNext ==
    \/ HandleSendMessage
    \/ Return

SendSpec == Init /\ [][SendNext]_vars

----------------------------------------------------------------------------
(* The request flows of the component in time: a flow starts in the call   *)
(* of its handler, stays in flight while it awaits the response to a       *)
(* request, and goes on when the response arrives.  The responses a flow   *)
(* will get are drawn when it starts.                                      *)

MaxFlows == 2

\* The messages typed into the input while flows may be in flight
ChatInputs == {"  ", "visit the museums"}

\* outboundDate.toISOString().split('T')[0]
FormattedDate == "2026-12-06"

\* The cities selected on the globe
Routes == {<<"Paris">>, <<"Paris", "Rome">>}

\* `Find flights from ${origin.name} to ${destination.name} departing ${formattedDate}`
flightQuery(locations) ==
    "Find flights from " \o locations[1] \o " to " \o locations[Len(locations)]
        \o " departing " \o FormattedDate

\* What handleFlightSearchFromGlobe comes to, given what analyzeSearchIntent
\* gave: throw new Error('Flight search failed') unless flights answer with success
globeSearch(query, searchIntent) ==
    IF searchIntent.raised THEN {Answered(Sent, "error")}
    ELSE IF ~searchIntent.value.needsFlights THEN {Answered(Sent, "error")}
    ELSE {Answered(Fetched(Sent, "flights/search", query, response),
                   IF response \in Succeeded THEN "results" ELSE "error") :
             response \in Responses}

\* if (locations.length < 2) return
handleFlightSearchFromGlobe(classifier, locations) ==
    IF Len(locations) < 2 THEN {NotSent}
    ELSE globeSearch(flightQuery(locations),
                     analyzeSearchIntent(
                         bound_analyzeComprehensive(classifier, flightQuery(locations)),
                         flightQuery(locations)))

\* The flows in flight
InFlight == {id \in DOMAIN flows : ~flows[id].ended}

\* The messages a flow has appended when served responses have arrived
AppendedBy(id, outcome, served) ==
    IF served = Len(outcome.fetched)
    THEN <<[flow |-> id, kind |-> outcome.messages[2]]>>
    ELSE <<>>

\* The handler runs up to its first await: the user message is appended and
\* isTyping set; a flow without a request ends in the same call
Started(handler, input, outcome) ==
    /\ outcome.messages # <<>>
    /\ flows' = Append(flows, [handler |-> handler, input |-> input,
                               whileTyping |-> isTyping,
                               alongside |-> InFlight,
                               outcome |-> outcome, served |-> 0,
                               ended |-> outcome.fetched = <<>>])
    /\ messages' = messages \o <<[flow |-> Len(flows) + 1, kind |-> "user"]>>
                            \o AppendedBy(Len(flows) + 1, outcome, 0)
    /\ isTyping' = IF outcome.fetched = <<>> THEN outcome.isTyping ELSE TRUE
    /\ UNCHANGED <<model, bound, memo, info, call>>

\* handleSendMessage, from the input or the send button
SendMessage ==
    /\ Len(flows) < MaxFlows
    /\ \E inputValue \in ChatInputs :
        /\ ~(trim(inputValue) = "" \/ isTyping)
        /\ \E sent \in handleSendMessage(
                           inputValue, bound_analyzeComprehensive(bound, inputValue)) :
              /\ ~sent.raised
              /\ Started("handleSendMessage", inputValue, sent.value)

\* handleFlightSearchFromGlobe, from the globe
GlobeSearch ==
    /\ Len(flows) < MaxFlows
    /\ \E locations \in Routes :
        \E outcome \in handleFlightSearchFromGlobe(bound, locations) :
            Started("handleFlightSearchFromGlobe", flightQuery(locations), outcome)

\* The response to the request a flow awaits arrives and the flow goes on, to
\* its next request or to its end: the bot message and finally setIsTyping(false)
Respond(id) ==
    /\ id \in InFlight
    /\ flows' = [flows EXCEPT ![id].served = @ + 1,
                              ![id].ended =
                                  flows[id].served + 1 = Len(flows[id].outcome.fetched)]
    /\ messages' = messages \o AppendedBy(id, flows[id].outcome, flows[id].served + 1)
    /\ isTyping' = IF flows[id].served + 1 = Len(flows[id].outcome.fetched)
                   THEN flows[id].outcome.isTyping
                   ELSE isTyping
    /\ UNCHANGED <<model, bound, memo, info, call>>

Responded == \E id \in 1..MaxFlows : Respond(id)

ChatNext ==
    \/ SendMessage
    \/ GlobeSearch
    \/ Responded

ChatSpec == Init /\ [][ChatNext]_vars

\* Every request is answered or fails: no flow awaits a response for ever
ChatLive == ChatSpec /\ \A id \in 1..MaxFlows : WF_vars(Respond(id))

----------------------------------------------------------------------------
(* The properties of the classifiers and of the tool plan.  Each is a      *)
(* predicate on the state a call leaves: op names the operation, text and  *)
(* threshold are its arguments, ret is what it returned or threw.          *)

TravelCategories == <<"flights", "hotels", "places">>

\* The keywords of a list that are substrings of the lower-cased text, in the
\* order of the list
KeywordsIn(t, keywords) ==
    LET Within(k) == includes(toLowerCase(t), k) IN SelectSeq(keywords, Within)

\* How many keywords of a travel category the lower-cased text contains
Score(t, category) == Len(KeywordsIn(t, keywordMap[category]))

\* The entries of a sequence of categories that are in a set, in that order
Listed(categories, set) ==
    LET Member(c) == c \in set IN SelectSeq(categories, Member)

\* C1: classify of an empty or whitespace-only text, by either classifier,
\* returns category "other" with confidence 0 and no keyword evidence, throws
\* nothing and scores no category.
C1_BlankIsOther ==
    (op \in {"fast_classify", "nb_classify"} /\ IsBlank(text)) =>
        /\ ~ret.raised
        /\ ret.value.category = "other"
        /\ ret.value.confidence = Num(0)
        /\ op = "fast_classify" => ret.value.matchedKeywords = <<>>
        /\ op = "nb_classify" =>
               ret.value.keywords = <<>> /\ ret.value.probabilities = <<>>
        /\ scored = {}

\* The probabilistic classifier has classified a text of one space
C1_Witness ==
    op = "nb_classify" /\ text = " " /\ ~ret.raised /\ ret.value.category = "other"

\* C2: the keyword classifier, on a non-blank text whose lower-cased form
\* contains a non-travel keyword, returns category "other" with confidence 0.9
\* and exactly the matching non-travel keywords, whatever travel keywords the
\* text contains as well.
C2_NonTravelFirst ==
    (/\ op = "fast_classify"
     /\ ~IsBlank(text)
     /\ KeywordsIn(text, nonTravelKeywords) # <<>>) =>
        ret = Returned([category |-> "other",
                        confidence |-> Num(90),
                        matchedKeywords |-> KeywordsIn(text, nonTravelKeywords)])

\* A text with a non-travel keyword and keywords of two travel categories
C2_Witness ==
    /\ op = "fast_classify"
    /\ KeywordsIn(text, nonTravelKeywords) = <<"weather">>
    /\ Score(text, "flights") > 0
    /\ Score(text, "places") > 0
    /\ ret.value.category = "other"

\* C3: the keyword classifier, when no non-travel keyword matches: with all
\* three scores 0 the result is "other" with confidence 0 and no matched
\* keywords; otherwise the category has the maximum score, and no category
\* before it in the order flights, hotels, places has that score.
C3_MaxScoreWithPriority ==
    (/\ op = "fast_classify"
     /\ ~IsBlank(text)
     /\ KeywordsIn(text, nonTravelKeywords) = <<>>) =>
        IF \A i \in 1..3 : Score(text, TravelCategories[i]) = 0
        THEN ret = Returned([category |-> "other", confidence |-> Num(0),
                             matchedKeywords |-> <<>>])
        ELSE /\ ~ret.raised
             /\ \E i \in 1..3 :
                  /\ ret.value.category = TravelCategories[i]
                  /\ \A j \in 1..3 :
                        Score(text, TravelCategories[j]) <= Score(text, TravelCategories[i])
                  /\ \A j \in 1..(i - 1) :
                        Score(text, TravelCategories[j]) < Score(text, TravelCategories[i])

\* Hotels and places tie at the maximum, above flights, and hotels is returned
C3_Witness ==
    /\ op = "fast_classify"
    /\ KeywordsIn(text, nonTravelKeywords) = <<>>
    /\ Score(text, "hotels") = Score(text, "places")
    /\ Score(text, "hotels") > Score(text, "flights")
    /\ ret.value.category = "hotels"

\* C4: the probabilistic classifier returns, for every utterance, a category
\* whose entry in the returned probabilities is maximal.  (Stated for the texts
\* that are not blank: a blank text has no probabilities.)
C4_CategoryIsArgmax ==
    (op = "nb_classify" /\ ~IsBlank(text) /\ ~ret.raised) =>
        LET probabilities == ret.value.probabilities
            category == ret.value.category
        IN  /\ category \in DOMAIN probabilities
            /\ \A c \in DOMAIN probabilities :
                  /\ ~probabilities[category].nan
                  /\ ~probabilities[c].nan
                  /\ probabilities[category].n >= probabilities[c].n

\* A text with a token that every plain object inherits: no probability is a
\* number, so none is maximal
C4_NoArgmax ==
    /\ op = "nb_classify"
    /\ "constructor" \in Range(tokenize(text))
    /\ ~ret.raised
    /\ ret.value.category = "other"
    /\ \A c \in Range(Categories) : ret.value.probabilities[c].nan

\* C5: the probabilistic classifier returns, for every non-empty utterance,
\* probabilities for the four categories, each in [0, 1], that sum to 1 within
\* 1e-6.  (Stated for the texts that are not blank.)
C5_ProbabilitiesSumToOne ==
    (op = "nb_classify" /\ ~IsBlank(text) /\ ~ret.raised) =>
        LET probabilities == ret.value.probabilities
            Sum == probabilities.flights.n + probabilities.hotels.n
                   + probabilities.places.n + probabilities.other.n
        IN  /\ DOMAIN probabilities = Range(Categories)
            /\ \A c \in Range(Categories) :
                  /\ ~probabilities[c].nan
                  /\ probabilities[c].n >= 0
                  /\ probabilities[c].n <= Scale
            /\ Sum >= Scale - Scale \div 10^6
            /\ Sum <= Scale + Scale \div 10^6

\* The confidence of a text with an inherited token is no number either
C5_NotANumber ==
    /\ op = "nb_classify"
    /\ text = "constructor"
    /\ ~ret.raised
    /\ ret.value.confidence.nan
    /\ ret.value.probabilities.flights.nan

\* The travel categories whose probability, in what classify returns for the
\* text, is a number no less than the threshold (in hundredths)
Significant(t, hundredths) ==
    LET probabilities == nb_classify(t).value.probabilities
    IN  {c \in Range(TravelCategories) :
            /\ c \in DOMAIN probabilities
            /\ ~probabilities[c].nan
            /\ probabilities[c].n >= hundredths * (Scale \div 100)}

\* C6: the probabilistic detectMultiIntent(text, threshold) returns exactly the
\* categories other than "other" whose normalized probability is at least the
\* threshold; when there is none (as for a blank text) it returns the one
\* category classify(text) predicts.  So the result is never empty and holds
\* "other" only as its single entry.
C6_IntentsAtThreshold ==
    (op = "nb_detectMultiIntent" /\ ~ret.raised) =>
        /\ IF Significant(text, threshold) # {}
           THEN ret.value = Listed(Categories, Significant(text, threshold))
           ELSE ret.value = <<nb_classify(text).value.category>>
        /\ ret.value # <<>>
        /\ "other" \in Range(ret.value) => ret.value = <<"other">>

\* Two categories reach the default threshold, and neither the higher one; at
\* the higher threshold the result is the predicted category alone
C6_Witness ==
    /\ op = "nb_detectMultiIntent"
    /\ threshold > DefaultThreshold
    /\ Cardinality(Significant(text, DefaultThreshold)) = 2
    /\ Significant(text, threshold) = {}
    /\ ret.value = <<nb_classify(text).value.category>>
    /\ ret.value # <<"other">>

\* C7: the keyword detectMultiIntent(text) holds a travel category iff a keyword
\* of it is a substring of the lower-cased text, whatever classify returns and
\* whatever non-travel keywords the text contains; it is ["other"] iff no
\* category has a match; the categories come once each, in the order flights,
\* hotels, places.
C7_EveryMatchedCategory ==
    op = "fast_detectMultiIntent" =>
        LET matched == {c \in Range(TravelCategories) : Score(text, c) >= 1}
        IN  /\ ~ret.raised
            /\ \A c \in Range(TravelCategories) : c \in Range(ret.value) <=> c \in matched
            /\ ret.value = <<"other">> <=> matched = {}
            /\ matched # {} => ret.value = Listed(TravelCategories, matched)

\* A text that classify calls "other", for its non-travel keyword, and in which
\* detectMultiIntent finds two travel categories
C7_Witness ==
    /\ op = "fast_detectMultiIntent"
    /\ KeywordsIn(text, nonTravelKeywords) # <<>>
    /\ fast_classify(text).value.category = "other"
    /\ ret.value = <<"flights", "places">>

\* C8: the probabilistic analyzeComprehensive(text) sets shouldRouteToLLM iff
\* classification.confidence < 0.4, or multiIntent has more than one entry, or
\* urgency.isUrgent, or budget.hasBudget, or the text is longer than 100
\* characters; and its confidence is classification.confidence.
C8_RouteToLLM ==
    (op = "nb_analyzeComprehensive" /\ ~ret.raised) =>
        LET analysis == ret.value
            confidence == analysis.classification.confidence
        IN  /\ analysis.shouldRouteToLLM <=>
                  \/ ~confidence.nan /\ confidence.n < 40
                  \/ Len(analysis.multiIntent) > 1
                  \/ analysis.urgency.isUrgent
                  \/ analysis.budget.hasBudget
                  \/ Len(text) > 100
            /\ analysis.confidence = confidence
            /\ analysis.classification = nb_classify(text).value
            /\ analysis.multiIntent = nb_detectMultiIntent(text, DefaultThreshold).value

\* A text routed for its length alone
C8_Witness ==
    /\ op = "nb_analyzeComprehensive"
    /\ ~ret.raised
    /\ ret.value.shouldRouteToLLM
    /\ Len(text) > 100
    /\ ret.value.classification.confidence.n >= 40
    /\ Len(ret.value.multiIntent) = 1
    /\ ~ret.value.urgency.isUrgent
    /\ ~ret.value.budget.hasBudget

\* C9: the keyword analyzeComprehensive(text) sets shouldRouteToLLM iff
\* classification.confidence < 0.3 or classification.category is "other";
\* urgency, budget, multi-intent and the text's length do not change it.
C9_RouteToLLM ==
    op = "fast_analyzeComprehensive" =>
        LET analysis == ret.value
            classification == fast_classify(text).value
        IN  /\ ~ret.raised
            /\ analysis.classification = classification
            /\ analysis.shouldRouteToLLM <=>
                  \/ classification.confidence.n < 30
                  \/ classification.category = "other"

\* A text with a budget that is not routed: a travel category with confidence
\* of 0.3 or more
C9_Witness ==
    /\ op = "fast_analyzeComprehensive"
    /\ ~ret.value.shouldRouteToLLM
    /\ ret.value.budget.hasBudget
    /\ ret.value.classification.category = "flights"
    /\ ret.value.classification.confidence.n >= 30

\* C10: analyzeSearchIntent, whenever multiIntent has more than one entry,
\* returns a plan in which needsFlights, needsHotels and needsPlaces are each
\* true exactly when that category is in multiIntent, whatever the predicted
\* category, its confidence and the destination.
C10_MultiIntentPlan ==
    (/\ op = "analyzeSearchIntent"
     /\ ~analyzed.raised
     /\ Len(analyzed.value.multiIntent) > 1) =>
        LET multiIntent == Range(analyzed.value.multiIntent)
        IN  /\ ~ret.raised
            /\ ret.value.needsFlights <=> "flights" \in multiIntent
            /\ ret.value.needsHotels <=> "hotels" \in multiIntent
            /\ ret.value.needsPlaces <=> "places" \in multiIntent

\* With the probabilistic classifier behind the import, a message of two
\* intents gets no plan: analyzeSearchIntent throws
C10_NoPlan ==
    /\ op = "analyzeSearchIntent"
    /\ bound = "probabilistic"
    /\ ~analyzed.raised
    /\ analyzed.value.multiIntent = <<"flights", "places">>
    /\ ret = Raised("TypeError")

\* The plan of two intents, when one is returned (as it is with the keyword
\* classifier behind the import)
C10_ReturnedPlan ==
    (/\ op = "analyzeSearchIntent"
     /\ ~analyzed.raised
     /\ Len(analyzed.value.multiIntent) > 1
     /\ ~ret.raised) =>
        LET multiIntent == Range(analyzed.value.multiIntent)
        IN  /\ ret.value.needsFlights <=> "flights" \in multiIntent
            /\ ret.value.needsHotels <=> "hotels" \in multiIntent
            /\ ret.value.needsPlaces <=> "places" \in multiIntent

\* A returned plan of two intents for a message whose category is "other"
C10_ReturnedPlanOfOther ==
    /\ op = "analyzeSearchIntent"
    /\ ~ret.raised
    /\ analyzed.value.classification.category = "other"
    /\ analyzed.value.multiIntent = <<"flights", "places">>
    /\ ret.value.destination.defined
    /\ ret.value.needsFlights /\ ~ret.value.needsHotels /\ ret.value.needsPlaces

\* The call of analyzeSearchIntent whose message has at most one intent and
\* the given predicted category
SingleIntent(category) ==
    /\ op = "analyzeSearchIntent"
    /\ ~analyzed.raised
    /\ Len(analyzed.value.multiIntent) <= 1
    /\ analyzed.value.classification.category = category

\* confidence > 0.7, which no NaN is
ConfidenceAbove(hundredths) ==
    /\ ~analyzed.value.classification.confidence.nan
    /\ analyzed.value.classification.confidence.n > hundredths

\* The single-intent plan of each travel category
SingleIntentFlags ==
    /\ SingleIntent("flights") =>
          /\ ret.value.needsFlights
          /\ ~ret.value.needsHotels
          /\ ret.value.needsPlaces <=>
                ConfidenceAbove(70) /\ ret.value.destination.defined
    /\ SingleIntent("hotels") =>
          /\ ret.value.needsHotels
          /\ ~ret.value.needsFlights
          /\ ret.value.needsPlaces <=> ret.value.destination.defined
    /\ SingleIntent("places") =>
          /\ ret.value.needsPlaces
          /\ ~ret.value.needsFlights
          /\ ~ret.value.needsHotels

\* C11: analyzeSearchIntent, for a message of at most one intent whose
\* predicted category is a travel category, returns a plan: for flights
\* needsFlights is true, needsHotels false, and needsPlaces true exactly when
\* the confidence is above 0.7 and a destination was extracted; for hotels
\* needsHotels is true, needsFlights false, and needsPlaces true exactly when a
\* destination was extracted; for places only needsPlaces is true.
C11_SingleIntentPlan ==
    (\E category \in Range(TravelCategories) : SingleIntent(category)) =>
        ~ret.raised /\ SingleIntentFlags

\* With the probabilistic classifier behind the import, a message of the one
\* intent flights gets no plan: analyzeSearchIntent throws
C11_NoPlan ==
    /\ SingleIntent("flights")
    /\ bound = "probabilistic"
    /\ ret = Raised("TypeError")

\* The single-intent plan, when one is returned (as it is with the keyword
\* classifier behind the import)
C11_ReturnedPlan ==
    ~(op = "analyzeSearchIntent" /\ ret.raised) => SingleIntentFlags

\* Returned plans of flights: confident with a destination, confident
\* without one, and with a destination but not confident
C11_FlightsAndPlaces ==
    /\ SingleIntent("flights") /\ ~ret.raised
    /\ ConfidenceAbove(70) /\ ret.value.destination.defined
    /\ ret.value.needsFlights /\ ~ret.value.needsHotels /\ ret.value.needsPlaces

C11_FlightsNowhere ==
    /\ SingleIntent("flights") /\ ~ret.raised
    /\ ConfidenceAbove(70) /\ ~ret.value.destination.defined
    /\ ret.value.needsFlights /\ ~ret.value.needsHotels /\ ~ret.value.needsPlaces

C11_FlightsUnsure ==
    /\ SingleIntent("flights") /\ ~ret.raised
    /\ ~ConfidenceAbove(70) /\ ret.value.destination.defined
    /\ ret.value.needsFlights /\ ~ret.value.needsHotels /\ ~ret.value.needsPlaces

\* Returned plans of hotels, with and without a destination, and of places
C11_HotelsAndPlaces ==
    /\ SingleIntent("hotels") /\ ~ret.raised
    /\ ret.value.destination.defined
    /\ ~ret.value.needsFlights /\ ret.value.needsHotels /\ ret.value.needsPlaces

C11_HotelsNowhere ==
    /\ SingleIntent("hotels") /\ ~ret.raised
    /\ ~ret.value.destination.defined
    /\ ~ret.value.needsFlights /\ ret.value.needsHotels /\ ~ret.value.needsPlaces

C11_PlacesOnly ==
    /\ SingleIntent("places") /\ ~ret.raised
    /\ ~ret.value.needsFlights /\ ~ret.value.needsHotels /\ ret.value.needsPlaces

\* Whether the lower-cased message contains a keyword of a safety-net list
HasKeywords(keywords) == Some(toLowerCase(text), keywords)

\* The plan of the category "other": each flag is whether its own list
\* matched, or all three when no list matched
SafetyNetFlags ==
    SingleIntent("other") =>
        IF HasKeywords(flightKeywords) \/ HasKeywords(hotelKeywords)
              \/ HasKeywords(placeKeywords)
        THEN /\ ret.value.needsFlights <=> HasKeywords(flightKeywords)
             /\ ret.value.needsHotels <=> HasKeywords(hotelKeywords)
             /\ ret.value.needsPlaces <=> HasKeywords(placeKeywords)
        ELSE ret.value.needsFlights /\ ret.value.needsHotels /\ ret.value.needsPlaces

\* C12: analyzeSearchIntent, for a message of at most one intent whose
\* predicted category is "other", returns a plan: if the lower-cased message
\* contains a keyword of the flight, hotel or place safety-net list, each flag
\* is whether its own list matched; if no list matched, all three flags are
\* true, as for "tell me something".
C12_SafetyNetPlan ==
    SingleIntent("other") => ~ret.raised /\ SafetyNetFlags

\* With the probabilistic classifier behind the import, "tell me something"
\* gets no plan: analyzeSearchIntent throws
C12_NoPlan ==
    /\ SingleIntent("other")
    /\ text = "tell me something"
    /\ bound = "probabilistic"
    /\ ret = Raised("TypeError")

\* The plan of "other", when one is returned (as it is with the keyword
\* classifier behind the import)
C12_ReturnedPlan ==
    ~(op = "analyzeSearchIntent" /\ ret.raised) => SafetyNetFlags

\* Returned plans of "other": no list matched, and only the flight list matched
C12_AllThree ==
    /\ SingleIntent("other") /\ ~ret.raised
    /\ text = "tell me something"
    /\ ret.value.needsFlights /\ ret.value.needsHotels /\ ret.value.needsPlaces

C12_FlightsOnly ==
    /\ SingleIntent("other") /\ ~ret.raised
    /\ HasKeywords(flightKeywords)
    /\ ret.value.needsFlights /\ ~ret.value.needsHotels /\ ~ret.value.needsPlaces

\* C13: over any sequence of addTrainingData calls, the vocabularySize and the
\* totalDocuments that getModelInfo reports after a call are each at least
\* what it reported before that call, although every retrain clears the
\* fields and recomputes them.
C13_RetrainingMonotone ==
    [][op' = "addTrainingData" =>
          /\ getModelInfo'.vocabularySize >= getModelInfo.vocabularySize
          /\ getModelInfo'.totalDocuments >= getModelInfo.totalDocuments]_vars

\* getModelInfo after two calls of addTrainingData, the first with new words:
\* it reports both samples and a larger vocabulary
C13_Witness ==
    /\ op = "getModelInfo"
    /\ trainingData = embeddedTrainingData \o Samples
    /\ ret.value.totalDocuments = Len(embeddedTrainingData) + 2
    /\ ret.value.vocabularySize > Cardinality(train(embeddedTrainingData).vocabulary)

\* A retrain with a sample that adds no word: the vocabulary keeps its size
C13_SameVocabulary ==
    /\ op = "addTrainingData"
    /\ trainingData = Append(embeddedTrainingData, Samples[2])
    /\ getModelInfo.vocabularySize = Cardinality(train(embeddedTrainingData).vocabulary)

\* The calls that read the classifier
Reads ==
    {MethodOf(classifier, method) :
        classifier \in Classifiers,
        method \in {"classify", "detectMultiIntent", "analyzeComprehensive"}}
    \cup {"getModelInfo"}

\* C14: with no addTrainingData in between, classify of a text returns what
\* the first classify of that text returned, whatever calls of classify,
\* detectMultiIntent and analyzeComprehensive came in between, and these
\* calls leave the training data, the vocabulary, the counts of every
\* category and totalDocuments as they were.
C14_Idempotent ==
    /\ []((op \in {"nb_classify", "fast_classify"} /\ memo # NoCall
               /\ memo.text = text) => ret = memo.result)
    /\ [][op' \in Reads => model' = model]_vars

\* classify by the probabilistic classifier of a text classified before, with
\* another read in between
C14_Witness ==
    /\ op = "nb_classify"
    /\ text = "cruise to alaska"
    /\ memo # NoCall
    /\ memo.text = text
    /\ memo.later = 2
    /\ ~ret.raised
    /\ ret = memo.result

\* The same for the keyword classifier
C14_FastWitness ==
    /\ op = "fast_classify"
    /\ text = "book flights to Paris"
    /\ memo # NoCall
    /\ memo.text = text
    /\ memo.later = 2
    /\ ret = memo.result

\* C15: classify of the probabilistic classifier, called while this.trained
\* is false, throws for every text, the empty one included, and does not
\* return the "other" of a blank text; and in every state after the
\* constructor, after any addTrainingData too, this.trained is true and
\* classify does not throw.
C15_TrainedBeforeClassify ==
    /\ \A t \in Probes :
          nb_classifyWhen(FALSE, t).result =
              Raised("Classifier must be trained before classification")
    /\ trained
    /\ op = "nb_classify" => ~ret.raised

\* After addTrainingData, classify of the empty text returns "other"
C15_Witness ==
    /\ op = "nb_classify"
    /\ text = ""
    /\ trainingData = embeddedTrainingData \o Samples
    /\ trained
    /\ ~ret.raised
    /\ ret.value.category = "other"
    /\ ret.value.confidence = Num(0)

\* The tiers of urgency that have a keyword in the lower-cased text
UrgentTiers(t) ==
    {level \in Range(urgencyLevels) : KeywordsIn(t, nb_urgencyKeywords[level]) # <<>>}

\* The first of high, medium, low among them
FirstTier(t) ==
    IF "high" \in UrgentTiers(t) THEN "high"
    ELSE IF "medium" \in UrgentTiers(t) THEN "medium"
    ELSE "low"

\* The urgency by tiers: the first tier with a keyword gives the level and
\* the keywords; without any, not urgent, low, no keywords
TieredUrgency(t) ==
    IF UrgentTiers(t) = {}
    THEN [isUrgent |-> FALSE, urgencyLevel |-> "low", keywords |-> <<>>]
    ELSE [isUrgent |-> FirstTier(t) # "low",
          urgencyLevel |-> FirstTier(t),
          keywords |-> KeywordsIn(t, nb_urgencyKeywords[FirstTier(t)])]

SameUrgency(a, b) ==
    /\ a.isUrgent = b.isUrgent
    /\ a.urgencyLevel = b.urgencyLevel
    /\ Range(a.keywords) = Range(b.keywords)

\* C16 as stated: analyzeComprehensive, of either classifier, examines the
\* tiers high, medium, low in that order; the first tier with a keyword in the
\* lower-cased text gives the level, isUrgent is whether that tier is not low,
\* and the keywords are the matches of that tier only; when no tier matches
\* the urgency is not urgent, low, without keywords.
C16_UrgencyTiers ==
    op \in {"nb_analyzeComprehensive", "fast_analyzeComprehensive"} =>
        /\ ~ret.raised
        /\ SameUrgency(ret.value.urgency, TieredUrgency(text))

\* C16: analyzeComprehensive of the probabilistic classifier gives the urgency
\* by tiers, with the keywords in the order of the tier's list; that of the
\* keyword classifier knows the high tier only: it is urgent, with level high
\* and the matched high keywords, exactly when a high keyword is in the
\* lower-cased text, and otherwise not urgent, low, without keywords.
C16_UrgencyByVariant ==
    /\ op = "nb_analyzeComprehensive" =>
          ~ret.raised /\ ret.value.urgency = TieredUrgency(text)
    /\ op = "fast_analyzeComprehensive" =>
          /\ ~ret.raised
          /\ SameUrgency(ret.value.urgency,
                         IF "high" \in UrgentTiers(text) THEN TieredUrgency(text)
                         ELSE [isUrgent |-> FALSE, urgencyLevel |-> "low",
                               keywords |-> <<>>])

\* A text with a medium and a low keyword: the probabilistic classifier
\* reports medium with the medium keyword only
C16_Witness ==
    /\ op = "nb_analyzeComprehensive"
    /\ UrgentTiers(text) = {"medium", "low"}
    /\ ret.value.urgency =
          [isUrgent |-> TRUE, urgencyLevel |-> "medium", keywords |-> <<"soon">>]

\* The keyword classifier reports nothing for it
C16_FastWitness ==
    /\ op = "fast_analyzeComprehensive"
    /\ UrgentTiers(text) = {"medium", "low"}
    /\ ret.value.urgency =
          [isUrgent |-> FALSE, urgencyLevel |-> "low", keywords |-> <<>>]

\* The other cases of the probabilistic classifier: high before medium, low
\* alone, and no tier
C16_HighFirst ==
    /\ op = "nb_analyzeComprehensive"
    /\ UrgentTiers(text) = {"high", "medium"}
    /\ ret.value.urgency =
          [isUrgent |-> TRUE, urgencyLevel |-> "high", keywords |-> <<"now">>]

C16_LowAlone ==
    /\ op = "nb_analyzeComprehensive"
    /\ UrgentTiers(text) = {"low"}
    /\ ret.value.urgency =
          [isUrgent |-> FALSE, urgencyLevel |-> "low", keywords |-> <<"eventually">>]

C16_NoTier ==
    /\ op = "nb_analyzeComprehensive"
    /\ UrgentTiers(text) = {}
    /\ text # ""
    /\ ret.value.urgency =
          [isUrgent |-> FALSE, urgencyLevel |-> "low", keywords |-> <<>>]

\* The match of the i-th price pattern anywhere in the text
PriceMatch(i, t) ==
    RegexMatch(pricePatterns[i].pattern,
               IF pricePatterns[i].ignoreCase THEN toLowerCase(t) ELSE t)

\* The price patterns that match
PricesIn(t) == {i \in DOMAIN pricePatterns : PriceMatch(i, t).matched}

\* Whether the phrase the i-th pattern matched has a qualifier of "under"
Qualified(i, t) ==
    \E k \in DOMAIN UnderWords :
        includes(toLowerCase(MatchedText(t, PriceMatch(i, t))), UnderWords[k])

\* The budget the i-th pattern gives
BudgetBy(i, t, type) ==
    [hasBudget |-> TRUE,
     amount |-> parseFloat(replaceFirstComma(CapturedText(t, PriceMatch(i, t)))),
     currency |-> "USD",
     type |-> type]

\* The budget by the three patterns in order: the first that matches wins,
\* the type is "under" when its phrase has a qualifier of "under"
PatternBudget(t) ==
    IF PricesIn(t) = {} THEN [hasBudget |-> FALSE]
    ELSE BudgetBy(Least(PricesIn(t)), t,
                  IF Qualified(Least(PricesIn(t)), t) THEN "under" ELSE "around")

\* The budget by the bare amount alone
BareBudget(t) ==
    IF 3 \in PricesIn(t) THEN BudgetBy(3, t, "around") ELSE [hasBudget |-> FALSE]

Rome150 == "hotels in Rome under $150"

C17_FastWitness ==
    /\ op = "fast_analyzeComprehensive"
    /\ PricesIn(text) = {2}
    /\ ret.value.budget = [hasBudget |-> FALSE]

\* The other cases of the probabilistic classifier: "about 200" after a bare
\* $300.75, a bare amount alone, the text of the example, and no amount
C17_AroundBeforeBare ==
    /\ op = "nb_analyzeComprehensive"
    /\ PricesIn(text) = {2, 3}
    /\ PriceMatch(3, text).at < PriceMatch(2, text).at
    /\ ret.value.budget = [hasBudget |-> TRUE,
                           amount |-> [whole |-> 200, hundredths |-> 0],
                           currency |-> "USD", type |-> "around"]

C17_BareAlone ==
    /\ op = "nb_analyzeComprehensive"
    /\ PricesIn(text) = {3}
    /\ ret.value.budget = [hasBudget |-> TRUE,
                           amount |-> [whole |-> 300, hundredths |-> 75],
                           currency |-> "USD", type |-> "around"]

C17_Rome150 ==
    /\ op = "nb_analyzeComprehensive"
    /\ text = Rome150
    /\ ret.value.budget.type = "under"

C17_NoAmount ==
    /\ op = "nb_analyzeComprehensive"
    /\ PricesIn(text) = {}
    /\ text # ""
    /\ ret.value.budget = [hasBudget |-> FALSE]

\* A string without its commas
RECURSIVE WithoutCommas(_)
WithoutCommas(str) ==
    IF str = "" THEN ""
    ELSE (IF Ch(str, 1) = "," THEN "" ELSE Ch(str, 1))
         \o WithoutCommas(SubSeq(str, 2, Len(str)))

\* The amount the pattern behind the budget of a call captured
CapturedAmount ==
    CapturedText(text, PriceMatch(IF op = "fast_analyzeComprehensive" THEN 3
                                  ELSE Least(PricesIn(text)), text))

Separators(str) == Cardinality({i \in 1..Len(str) : Ch(str, i) = ","})

\* C18: when a pattern of analyzeComprehensive, of either classifier, matches
\* an amount with comma thousand-separators, however many groups, and
\* optional cents, the amount returned is the number the whole matched amount
\* denotes once every separator is removed.
C18_WholeAmount ==
    (/\ op \in {"nb_analyzeComprehensive", "fast_analyzeComprehensive"}
     /\ ~ret.raised
     /\ ret.value.budget.hasBudget) =>
        ret.value.budget.amount = parseFloat(WithoutCommas(CapturedAmount))

\* "max $1,250,000" gives the amount 1250
C18_FirstGroupOnly ==
    /\ op = "nb_analyzeComprehensive"
    /\ text = "nightlife, max $1,250,000"
    /\ CapturedAmount = "1,250,000"
    /\ ret.value.budget.amount = [whole |-> 1250, hundredths |-> 0]

\* The same by the keyword classifier
C18_FastFirstGroupOnly ==
    /\ op = "fast_analyzeComprehensive"
    /\ text = "nightlife, max $1,250,000"
    /\ CapturedAmount = "1,250,000"
    /\ ret.value.budget.amount = [whole |-> 1250, hundredths |-> 0]

\* With at most one separator the amount is that of the whole matched amount
C18_OneSeparator ==
    (/\ op \in {"nb_analyzeComprehensive", "fast_analyzeComprehensive"}
     /\ ~ret.raised
     /\ ret.value.budget.hasBudget
     /\ Separators(CapturedAmount) <= 1) =>
        ret.value.budget.amount = parseFloat(WithoutCommas(CapturedAmount))

\* An amount of one separator and cents
C18_OneSeparatorAndCents ==
    /\ op = "nb_analyzeComprehensive"
    /\ text = "for under $1,250.50"
    /\ CapturedAmount = "1,250.50"
    /\ ret.value.budget.amount = [whole |-> 1250, hundredths |-> 50]

\* The match of the i-th destination pattern in the lower-cased text
PlaceMatch(i, t) == RegexMatch(destinationPatterns[i], toLowerCase(t))

\* Its capture, cleaned
CleanedCapture(i, t) ==
    cleanDestination(CapturedText(toLowerCase(t), PlaceMatch(i, t)))

\* The patterns that match with a capture
PlacesIn(t) ==
    {i \in DOMAIN destinationPatterns :
        /\ PlaceMatch(i, t).matched
        /\ CapturedText(toLowerCase(t), PlaceMatch(i, t)) # ""}

\* Those whose cleaned capture is a generic word, and those accepted
GenericIn(t) ==
    {i \in PlacesIn(t) : toLowerCase(CleanedCapture(i, t)) \in Range(genericWords)}

AcceptedIn(t) == PlacesIn(t) \ GenericIn(t)

\* The words of the text that start with a capital and a small letter and are
\* not excluded, joined by spaces
CapitalWords(t) ==
    LET Capital(word) ==
            /\ Len(word) >= 2
            /\ Ch(word, 1) \in UpperSet
            /\ Ch(word, 2) \in LowerSet
            /\ word \notin Range(excludedWords)
    IN  SelectSeq(SplitSpaces(t), Capital)

\* Those whose cleaned capture has at most one character
ShortIn(t) == {i \in PlacesIn(t) : Len(CleanedCapture(i, t)) <= 1}

\* The destination by the first of the accepted patterns, and by the
\* capitalized words when no pattern is accepted
DestinationBy(accepted, t) ==
    IF accepted # {} THEN Defined(CleanedCapture(Least(accepted), t))
    ELSE IF CapitalWords(t) # <<>> THEN Defined(JoinWithSpace(CapitalWords(t)))
    ELSE Undefined

\* Generic captures passed over
PatternDestination(t) == DestinationBy(AcceptedIn(t), t)

\* Generic captures and captures of at most one character passed over
LongDestination(t) == DestinationBy(AcceptedIn(t) \ ShortIn(t), t)

\* C19: analyzeSearchIntent returns, as destination, the cleaned capture of
\* the first pattern, in the order of the list, that matches and is accepted;
\* a match whose cleaned capture is a generic word (there, here, somewhere,
\* anywhere, places, city, town) is rejected and the next pattern is tried;
\* only when no pattern is accepted is the destination the capitalized words
\* of the original text, the excluded ones left out, joined by spaces, and
\* undefined when there are none.
C19_Destination ==
    op = "analyzeSearchIntent" =>
        ~ret.raised /\ ret.value.destination = PatternDestination(text)

\* With the probabilistic classifier behind the import no destination is
\* returned for "see around town, stay in oslo,": analyzeSearchIntent throws
C19_NoDestination ==
    /\ op = "analyzeSearchIntent"
    /\ bound = "probabilistic"
    /\ text = "see around town, stay in oslo,"
    /\ AcceptedIn(text) = {2}
    /\ ret = Raised("TypeError")

\* The destination, when a plan is returned (as it is with the keyword
\* classifier behind the import)
C19_ReturnedDestination ==
    (op = "analyzeSearchIntent" /\ ~ret.raised) =>
        /\ ret.value.destination = LongDestination(text)
        /\ ShortIn(text) = {} => ret.value.destination = PatternDestination(text)

\* Returned destinations: a generic capture passed over for the next pattern,
\* which also wins over a later pattern that matches earlier in the text
C19_NextPattern ==
    /\ op = "analyzeSearchIntent" /\ ~ret.raised
    /\ GenericIn(text) = {1}
    /\ AcceptedIn(text) = {2, 3}
    /\ PlaceMatch(3, text).at < PlaceMatch(2, text).at
    /\ ret.value.destination = Defined("Oslo")

\* a generic capture alone, and the capitalized words instead
C19_GenericThenCapitals ==
    /\ op = "analyzeSearchIntent" /\ ~ret.raised
    /\ GenericIn(text) = {2}
    /\ AcceptedIn(text) = {}
    /\ ret.value.destination = Defined("Lima")

\* generic captures alone and no capitalized word
C19_GenericThenNothing ==
    /\ op = "analyzeSearchIntent" /\ ~ret.raised
    /\ GenericIn(text) = {1, 2}
    /\ AcceptedIn(text) = {}
    /\ ret.value.destination = Undefined

\* no pattern, and two capitalized words
C19_Capitals ==
    /\ op = "analyzeSearchIntent" /\ ~ret.raised
    /\ PlacesIn(text) = {}
    /\ ret.value.destination = Defined("Lima Rome")

\* captures of one letter and of an article alone, neither a generic word,
\* passed over as well
C19_ShortCaptures ==
    /\ op = "analyzeSearchIntent" /\ ~ret.raised
    /\ text = "trip to a, lodge at b,"
    /\ AcceptedIn(text) = {2, 4}
    /\ CleanedCapture(2, text) = "B"
    /\ CleanedCapture(4, text) = ""
    /\ PatternDestination(text) = Defined("B")
    /\ ret.value.destination = Undefined

\* The requests of the flow to the natural language endpoint with the message
\* itself
FallbacksOf(flow, message) ==
    {i \in DOMAIN flow.fetched :
        /\ flow.fetched[i].endpoint = NaturalEndpoint
        /\ flow.fetched[i].body = message}

\* The responses of the searches of the flow
SearchResponses(flow) ==
    {flow.fetched[i].response :
        i \in {j \in DOMAIN flow.fetched : flow.fetched[j].endpoint # NaturalEndpoint}}

\* A flow of handleSendMessage for which analyzeComprehensive was called
Analyzed ==
    /\ op = "handleSendMessage"
    /\ analyzed # NoCall
    /\ ~analyzed.raised

\* C20: whenever analyzeComprehensive reports shouldRouteToLLM true for the
\* message of a send flow, the flow requests the natural language fallback
\* endpoint with that message.
C20_FallbackWhenRouted ==
    (Analyzed /\ analyzed.value.shouldRouteToLLM) =>
        ~ret.raised /\ FallbacksOf(ret.value, text) # {}

\* With the keyword classifier, "tell me something" is routed to the fallback
\* (category other, confidence 0), yet the flow searches flights, hotels and
\* places, shows the results and never requests the fallback
C20_NoFallback ==
    /\ Analyzed
    /\ bound = "keyword"
    /\ text = "tell me something"
    /\ analyzed.value.shouldRouteToLLM
    /\ ~ret.raised
    /\ Len(ret.value.fetched) = 3
    /\ ret.value.fetched[1] = [endpoint |-> "flights/search", body |-> text,
                               response |-> "successful"]
    /\ FallbacksOf(ret.value, text) = {}
    /\ ret.value.messages = <<"user", "results">>
    /\ ~ret.value.isTyping

\* What the flow does instead.  With the probabilistic classifier every flow
\* requests the fallback first and nothing else, the flag set or not, for
\* analyzeSearchIntent throws; with the keyword classifier the fallback is
\* requested exactly for a non-travel message (other above 0.8), after a
\* flights search that rejected or was not ok, and when no search succeeded
C20_FallbackByFlow ==
    Analyzed =>
        /\ ~ret.raised
        /\ bound = "probabilistic" =>
              /\ Len(ret.value.fetched) = 1
              /\ FallbacksOf(ret.value, text) = {1}
        /\ bound = "keyword" =>
              (FallbacksOf(ret.value, text) # {} <=>
                  \/ nonTravel(analyzed.value.classification)
                  \/ \E i \in DOMAIN ret.value.fetched :
                        /\ ret.value.fetched[i].endpoint = "flights/search"
                        /\ ret.value.fetched[i].response \in {"rejected", "notOk"}
                  \/ SearchResponses(ret.value) \cap Succeeded = {})

\* The flag not set and the fallback requested all the same, by the
\* probabilistic classifier's flow
C20_FallbackUnrouted ==
    /\ Analyzed
    /\ bound = "probabilistic"
    /\ ~analyzed.value.shouldRouteToLLM
    /\ FallbacksOf(ret.value, text) = {1}
    /\ ret.value.messages = <<"user", "natural">>

\* A places search without a destination is not made, and the fallback is
\* requested for want of results
C20_NoDestination ==
    /\ Analyzed
    /\ bound = "keyword"
    /\ text = "visit the museums"
    /\ ~analyzed.value.shouldRouteToLLM
    /\ Len(ret.value.fetched) = 1
    /\ FallbacksOf(ret.value, text) = {1}

\* A travel message of low confidence, routed to the fallback, and answered by
\* the hotels found
C20_LowConfidence ==
    /\ Analyzed
    /\ bound = "keyword"
    /\ analyzed.value.classification.category = "hotels"
    /\ analyzed.value.classification.confidence.n < 30
    /\ analyzed.value.shouldRouteToLLM
    /\ FallbacksOf(ret.value, text) = {}
    /\ ret.value.messages = <<"user", "results">>

\* A non-travel message whose fallback gave no answer: the searches follow, and
\* the fallback twice more
C20_NonTravelThrice ==
    /\ Analyzed
    /\ bound = "keyword"
    /\ nonTravel(analyzed.value.classification)
    /\ Cardinality(FallbacksOf(ret.value, text)) = 3
    /\ ret.value.messages = <<"user", "error">>

\* A blank input starts no flow
C20_NotSent ==
    /\ op = "handleSendMessage"
    /\ analyzed = NoCall
    /\ ret = Returned(NotSent)

\* A flow of handleSendMessage on an accepted message
Accepted ==
    /\ op = "handleSendMessage"
    /\ ~ret.raised
    /\ ret.value.messages # <<>>

\* The fallback requests of the flow that gave no answer
FailedFallbacks(flow, message) ==
    {i \in FallbacksOf(flow, message) : flow.fetched[i].response \notin Succeeded}

\* C21: in a send flow in which no search (flights, hotels, places) gave a
\* successful result, be it by a response that is not ok, a rejected request,
\* success false or no search made at all, the fallback endpoint is requested
\* with the message before the bot message is appended; the error message is
\* appended only if every such request failed, and otherwise the answer of the
\* fallback is.
C21_FallbackBeforeError ==
    (Accepted /\ SearchResponses(ret.value) \cap Succeeded = {}) =>
        /\ FallbacksOf(ret.value, text) # {}
        /\ \A i \in FallbacksOf(ret.value, text) : i <= ret.value.answeredAfter
        /\ ret.value.messages \in {<<"user", "natural">>, <<"user", "error">>}
        /\ ret.value.messages = <<"user", "error">> <=>
              FailedFallbacks(ret.value, text) = FallbacksOf(ret.value, text)

\* Flights with success false, hotels rejected, places not searched for want of
\* a destination: the fallback is requested twice, fails twice, and only then
\* the error message is appended
C21_Witness ==
    /\ Accepted
    /\ bound = "keyword"
    /\ text = "tell me something"
    /\ Len(ret.value.fetched) = 4
    /\ ret.value.fetched[1].response = "unsuccessful"
    /\ ret.value.fetched[2] = [endpoint |-> "hotels/search", body |-> text,
                               response |-> "rejected"]
    /\ ret.value.fetched[3] = [endpoint |-> NaturalEndpoint, body |-> text,
                               response |-> "notOk"]
    /\ ret.value.fetched[4] = [endpoint |-> NaturalEndpoint, body |-> text,
                               response |-> "rejected"]
    /\ ret.value.answeredAfter = 4
    /\ ret.value.messages = <<"user", "error">>

\* No search made at all (analyzeSearchIntent threw), and the fallback answers
C21_NoSearchMade ==
    /\ Accepted
    /\ bound = "probabilistic"
    /\ SearchResponses(ret.value) = {}
    /\ FallbacksOf(ret.value, text) = {1}
    /\ ret.value.messages = <<"user", "natural">>

\* A flights response that is not ok ends the searches; the fallback answers
C21_FlightsNotOk ==
    /\ Accepted
    /\ bound = "keyword"
    /\ Len(ret.value.fetched) = 2
    /\ ret.value.fetched[1] = [endpoint |-> "flights/search", body |-> text,
                               response |-> "notOk"]
    /\ ret.value.fetched[2].response = "successful"
    /\ ret.value.messages = <<"user", "natural">>

\* The searches the plan of the flow's message requests
RequestedBy(plan) ==
    {search \in {"flights/search", "hotels/search", "places/search"} :
        \/ search = "flights/search" /\ plan.needsFlights
        \/ search = "hotels/search" /\ plan.needsHotels
        \/ search = "places/search" /\ plan.needsPlaces}

\* The searches the flow made, and those of them that were rejected or not ok
SearchesOf(flow) ==
    {flow.fetched[i].endpoint : i \in DOMAIN flow.fetched} \ {NaturalEndpoint}

FailedSearchesOf(flow) ==
    {flow.fetched[i].endpoint :
        i \in {j \in DOMAIN flow.fetched :
                  /\ flow.fetched[j].endpoint # NaturalEndpoint
                  /\ flow.fetched[j].response \in {"rejected", "notOk"}}}

\* The flow made every search of the plan, and showed the results if one of
\* them succeeded
Independent(flow, plan) ==
    /\ SearchesOf(flow) = RequestedBy(plan)
    /\ SearchResponses(flow) \cap Succeeded # {} =>
          flow.messages = <<"user", "results">>

\* A flow with a plan, which went on to the searches
Searching(flow, searchIntent) ==
    /\ ~searchIntent.raised
    /\ SearchesOf(flow) # {}

\* C22: when the plan requests more than one of flights, hotels and places and
\* one of the requested searches fails (the request is rejected or the
\* response is not ok), the other requested searches are made all the same
\* and their successful results are shown.
C22_IndependentCalls ==
    (/\ Accepted /\ Analyzed
     /\ Searching(ret.value, analyzeSearchIntent(analyzed, text))
     /\ Cardinality(RequestedBy(analyzeSearchIntent(analyzed, text).value)) > 1
     /\ FailedSearchesOf(ret.value) # {})
        => Independent(ret.value, analyzeSearchIntent(analyzed, text).value)

\* The plan of "tell me something" requests all three; the flights response is
\* not ok, and neither hotels nor places are searched
C22_FlightsEndSearches ==
    /\ Accepted /\ Analyzed
    /\ bound = "keyword"
    /\ text = "tell me something"
    /\ RequestedBy(analyzeSearchIntent(analyzed, text).value)
          = {"flights/search", "hotels/search", "places/search"}
    /\ ret.value.fetched[1] = [endpoint |-> "flights/search", body |-> text,
                               response |-> "notOk"]
    /\ SearchesOf(ret.value) = {"flights/search"}

\* The places search of a plan without destination takes the city of the
\* flights result, and is not made when that has none
C22_PlacesNeedFlights ==
    /\ Accepted /\ Analyzed
    /\ bound = "keyword"
    /\ text = "tell me something"
    /\ ret.value.fetched[1] = [endpoint |-> "flights/search", body |-> text,
                               response |-> "bare"]
    /\ ret.value.fetched[2].response = "successful"
    /\ SearchesOf(ret.value) = {"flights/search", "hotels/search"}
    /\ ret.value.messages = <<"user", "results">>

\* What holds: hotels and places are searched whatever came of the searches
\* before them, once the flights search has not ended the flow and a
\* destination is at hand; and the results are shown if any search succeeded
C22_AfterFlights ==
    (/\ Accepted /\ Analyzed
     /\ Searching(ret.value, analyzeSearchIntent(analyzed, text))
     /\ "flights/search" \notin FailedSearchesOf(ret.value))
        => /\ SearchesOf(ret.value) \ {"places/search"}
                = RequestedBy(analyzeSearchIntent(analyzed, text).value)
                     \ {"places/search"}
           /\ analyzeSearchIntent(analyzed, text).value.destination.defined =>
                 Independent(ret.value, analyzeSearchIntent(analyzed, text).value)
           /\ SearchResponses(ret.value) \cap Succeeded # {} <=>
                 ret.value.messages = <<"user", "results">>

\* Hotels rejected, places found and shown
C22_HotelsRejected ==
    /\ Accepted /\ Analyzed
    /\ bound = "keyword"
    /\ text = "see around town, stay in oslo,"
    /\ Len(ret.value.fetched) = 2
    /\ ret.value.fetched[1] = [endpoint |-> "hotels/search", body |-> text,
                               response |-> "rejected"]
    /\ ret.value.fetched[2] = [endpoint |-> "places/search", body |-> "Oslo",
                               response |-> "successful"]
    /\ ret.value.messages = <<"user", "results">>

\* C23: with either classifier behind the import of the chat component,
\* analyzeSearchIntent returns a tool plan for every message and raises for
\* none.
C23_Interchangeable ==
    op = "analyzeSearchIntent" =>
        /\ ~ret.raised
        /\ DOMAIN ret.value
              = {"needsFlights", "needsHotels", "needsPlaces", "destination"}

\* The result of the probabilistic classify has category, confidence,
\* probabilities and keywords; analyzeSearchIntent reads matchedKeywords of it
\* and throws
C23_ProbabilisticRaises ==
    /\ op = "analyzeSearchIntent"
    /\ bound = "probabilistic"
    /\ text = "book flights to Paris"
    /\ ~analyzed.raised
    /\ DOMAIN analyzed.value.classification
          = {"category", "confidence", "probabilities", "keywords"}
    /\ ret = Raised("TypeError")

\* Which classifier is behind the import decides: the keyword one always gives
\* a plan, the probabilistic one never
C23_PlanByClassifier ==
    op = "analyzeSearchIntent" =>
        /\ bound = "keyword" =>
              /\ DOMAIN analyzed.value.classification
                    = {"category", "confidence", "matchedKeywords"}
              /\ ~ret.raised
        /\ bound = "probabilistic" => ret = Raised("TypeError")

\* The same message with the keyword classifier: a plan
C23_KeywordReturns ==
    /\ op = "analyzeSearchIntent"
    /\ bound = "keyword"
    /\ text = "book flights to Paris"
    /\ ret = Returned([needsFlights |-> TRUE, needsHotels |-> FALSE,
                       needsPlaces |-> TRUE, destination |-> Defined("Paris")])

\* The flags of a plan that are true
FlagsOf(plan) ==
    {flag \in {"needsFlights", "needsHotels", "needsPlaces"} : plan[flag]}

\* At least one flag, and at least two for more than one intent
Needed(plan, multiIntent) ==
    /\ FlagsOf(plan) # {}
    /\ Len(multiIntent) > 1 => Cardinality(FlagsOf(plan)) >= 2

\* C24: every plan analyzeSearchIntent returns has at least one of
\* needsFlights, needsHotels, needsPlaces true, and at least two of them when
\* multiIntent has more than one entry; and so has the plan computed from
\* what the probabilistic analyzeComprehensive returns.
C24_SomethingNeeded ==
    /\ (op = "analyzeSearchIntent" /\ ~ret.raised) =>
          Needed(ret.value, analyzed.value.multiIntent)
    /\ (op = "nb_analyzeComprehensive" /\ ~ret.raised) =>
          Needed(planFor(ret.value.classification, ret.value.multiIntent,
                         extractDestination(text), toLowerCase(text)),
                 ret.value.multiIntent)

\* A non-travel message of the keyword classifier (other, 0.9) without a
\* keyword of the safety net: all three are needed
C24_Witness ==
    /\ op = "analyzeSearchIntent" /\ ~ret.raised
    /\ analyzed.value.classification.category = "other"
    /\ analyzed.value.classification.confidence = Num(90)
    /\ analyzed.value.multiIntent = <<"other">>
    /\ FlagsOf(ret.value) = {"needsFlights", "needsHotels", "needsPlaces"}

\* Two intents, two flags
C24_TwoIntents ==
    /\ op = "analyzeSearchIntent" /\ ~ret.raised
    /\ Len(analyzed.value.multiIntent) = 2
    /\ Cardinality(FlagsOf(ret.value)) = 2

\* A non-travel message with one travel intent: the one flag of the safety net
C24_NonTravelOneFlag ==
    /\ op = "analyzeSearchIntent" /\ ~ret.raised
    /\ analyzed.value.classification.category = "other"
    /\ analyzed.value.classification.confidence = Num(90)
    /\ Len(analyzed.value.multiIntent) = 1
    /\ analyzed.value.multiIntent # <<"other">>
    /\ Cardinality(FlagsOf(ret.value)) = 1

\* Two intents of the probabilistic classifier
C24_ProbabilisticTwoIntents ==
    /\ op = "nb_analyzeComprehensive" /\ ~ret.raised
    /\ Len(ret.value.multiIntent) = 2

\* The kinds of the messages a flow has appended, in their order
MessagesOf(id) ==
    LET By(message) == message.flow = id
        appended == SelectSeq(messages, By)
    IN  [i \in DOMAIN appended |-> appended[i].kind]

\* The flows of handleSendMessage
SendFlows == {id \in DOMAIN flows : flows[id].handler = "handleSendMessage"}

C25_InFlight ==
    \E id \in SendFlows :
        /\ ~flows[id].ended
        /\ flows[id].served = 1
        /\ MessagesOf(id) = <<"user">>
        /\ isTyping

\* The flows of handleFlightSearchFromGlobe
GlobeFlows == {id \in DOMAIN flows : flows[id].handler = "handleFlightSearchFromGlobe"}

\* C26: at most one request flow is in flight at any time, isTyping is true
\* exactly while a flow is in flight (so it is never set to false while a
\* flow still awaits its responses), and no flow has started while isTyping
\* was true, under any interleaving of handleSendMessage and
\* handleFlightSearchFromGlobe.
C26_OneFlowInFlight ==
    /\ Cardinality(InFlight) <= 1
    /\ isTyping <=> InFlight # {}
    /\ \A id \in DOMAIN flows : ~flows[id].whileTyping

\* While a flow of handleSendMessage awaits the fallback, a flight search from
\* the globe starts although isTyping is true, and ends in the same call
\* (analyzeSearchIntent throws): isTyping is false and the first flow still
\* awaits its response
C26_GlobeWhileTyping ==
    /\ bound = "probabilistic"
    /\ DOMAIN flows = {1, 2}
    /\ 1 \in SendFlows /\ 2 \in GlobeFlows
    /\ flows[2].whileTyping
    /\ flows[2].alongside = {1}
    /\ flows[2].ended
    /\ InFlight = {1}
    /\ ~isTyping
    /\ MessagesOf(2) = <<"user", "error">>

\* Two flows in flight, with the keyword classifier: the flights search of the
\* globe awaits its response alongside the flow of handleSendMessage
C26_TwoInFlight ==
    /\ bound = "keyword"
    /\ 1 \in SendFlows /\ 2 \in GlobeFlows
    /\ flows[2].whileTyping
    /\ InFlight = {1, 2}
    /\ isTyping

\* Two flight searches of the globe in flight
C26_TwoGlobeFlows ==
    /\ GlobeFlows = {1, 2}
    /\ flows[2].alongside = {1}
    /\ InFlight = {1, 2}

\* What holds: handleSendMessage starts no flow while isTyping is true, and
\* as long as the globe starts none the claim holds
C26_SendGuarded ==
    /\ \A id \in SendFlows : ~flows[id].whileTyping
    /\ GlobeFlows = {} => /\ Cardinality(InFlight) <= 1
                          /\ isTyping <=> InFlight # {}

\* Two flows of handleSendMessage, one after the other
C26_SendAfterSend ==
    /\ SendFlows = {1, 2}
    /\ flows[1].ended
    /\ flows[2].alongside = {}
    /\ InFlight = {2}
    /\ isTyping

\* The categories whose log-score for the text is a number that no other
\* category's exceeds, all four being numbers
MaximalOf(lp) ==
    {c \in Range(Categories) :
        \A d \in Range(Categories) : ~lp[d].nan /\ ~LogGreater(lp[d], lp[c])}

\* The one of them that comes last in flights, hotels, places, other
LastOf(categories) ==
    Categories[Greatest({i \in DOMAIN Categories : Categories[i] \in categories})]

\* The result of classify is the last of two or more maximal categories
LastOfTied(result, lp) ==
    Cardinality(MaximalOf(lp)) >= 2 => result.category = LastOf(MaximalOf(lp))

\* A classify of the probabilistic classifier on a text that is not blank
Scored ==
    /\ op = "nb_classify"
    /\ ~ret.raised
    /\ ~IsBlank(text)

\* C27: when two or more categories have the same, maximal log-score, the
\* probabilistic classify returns the one that comes last in the order
\* flights, hotels, places, other; and a text that is not blank and whose
\* tokens are all dropped is, with the embedded corpus, classified as places
\* with a confidence above 0.
C27_LastOfEqualScores ==
    Scored =>
        /\ LastOfTied(ret.value, logProbabilitiesOf(text, Categories))
        /\ (tokenize(text) = <<>> /\ trainingData = embeddedTrainingData) =>
              /\ categoryCounts["flights"] = categoryCounts["hotels"]
              /\ categoryCounts["hotels"] = categoryCounts["places"]
              /\ ret.value.category = "places"
              /\ ~ret.value.confidence.nan
              /\ ret.value.confidence.n > 0

\* "is it ok?" has no token left; with the embedded corpus flights, hotels and
\* places are equal by their priors, and places is returned
C27_Witness ==
    /\ Scored
    /\ text = "is it ok?"
    /\ tokenize(text) = <<>>
    /\ trainingData = embeddedTrainingData
    /\ MaximalOf(logProbabilitiesOf(text, Categories)) = {"flights", "hotels", "places"}
    /\ ret.value.category = "places"
    /\ ret.value.confidence.n > 0

\* After a places sample and a flights sample were added, flights and places
\* are equal and places is returned
C27_TwoEqual ==
    /\ Scored
    /\ Len(trainingData) = Len(embeddedTrainingData) + 2
    /\ MaximalOf(logProbabilitiesOf(text, Categories)) = {"flights", "places"}
    /\ ret.value.category = "places"

\* After two flights samples were added flights is maximal alone
C27_NoTie ==
    /\ Scored
    /\ tokenize(text) = <<>>
    /\ MaximalOf(logProbabilitiesOf(text, Categories)) = {"flights"}
    /\ ret.value.category = "flights"

\* The tokens of the samples of a category, sample after sample (by halves)
RECURSIVE TokensIn(_, _)
TokensIn(data, category) ==
    IF Len(data) = 0 THEN <<>>
    ELSE IF Len(data) = 1
    THEN IF data[1].category = category THEN tokenize(data[1].text) ELSE <<>>
    ELSE LET half == Len(data) \div 2
         IN  TokensIn(SubSeq(data, 1, half), category)
                 \o TokensIn(SubSeq(data, half + 1, Len(data)), category)

\* How often a token occurs among tokens
Occurrences(tokens, token) == Cardinality({j \in DOMAIN tokens : tokens[j] = token})

\* The counts hold each of the tokens with the number of its occurrences, and
\* nothing else
CountsAre(counts, tokens) ==
    /\ DOMAIN counts = Range(tokens)
    /\ \A token \in DOMAIN counts : counts[token] = Num(Occurrences(tokens, token))

\* The documents counted over the categories
DocumentsCounted ==
    LET sum[i \in 0..Len(Categories)] ==
            IF i = 0 THEN 0 ELSE sum[i - 1] + categoryCounts[Categories[i]]
    IN  sum[Len(Categories)]

\* The fields of the classifier are those of its training data, counted anew
Consistent ==
    /\ totalDocuments = Len(trainingData)
    /\ DocumentsCounted = totalDocuments
    /\ vocabulary = UNION {Range(TokensIn(trainingData, c)) : c \in Range(Categories)}
    /\ \A c \in Range(Categories) :
           CountsAre(categoryWordCounts[c], TokensIn(trainingData, c))

\* No token of the training data names a property of Object.prototype
OrdinaryTokens ==
    \A c \in Range(Categories) :
        Range(TokensIn(trainingData, c)) \cap ObjectPrototypeKeys = {}

\* C28: after the constructor and after every addTrainingData call the model
\* is consistent with its training data: totalDocuments is the number of
\* samples, the documents counted per category sum to it, the vocabulary is
\* the set of the tokens of all samples, and the token counts of each
\* category are the occurrences of the tokens in the samples of the category.
C28_ConsistentAfterTraining ==
    (op = "addTrainingData" \/ trainingData = embeddedTrainingData) => Consistent

\* addTrainingData with samples whose tokens are ordinary words, one of them
\* given twice: the fields are those of all the samples counted once
C28_OrdinarySamples ==
    /\ op = "addTrainingData"
    /\ trainingData = embeddedTrainingData \o <<Samples[1], Samples[1]>>
    /\ Consistent

\* Whatever the calls before, the model is consistent with training data
\* whose tokens name no inherited property
C28_ConsistentOrdinary == OrdinaryTokens => Consistent

\* One sample "constructor": its count is no number
C28_NotANumber ==
    /\ op = "addTrainingData"
    /\ trainingData = Append(embeddedTrainingData, InheritedSample)
    /\ categoryWordCounts["other"]["constructor"] = NaN
    /\ "constructor" \in vocabulary

\* Two samples "constructor": the token is counted once
C28_CountedOnce ==
    /\ op = "addTrainingData"
    /\ trainingData = embeddedTrainingData \o <<InheritedSample, InheritedSample>>
    /\ categoryWordCounts["other"]["constructor"] = Num(1)

\* C29: a model-info value returned by getModelInfo keeps its vocabularySize,
\* totalDocuments and categoryDistribution through a later addTrainingData
\* on the same classifier.
C29_Snapshot ==
    [][(op' = "addTrainingData" /\ info # NoCall) => info' = info]_vars

\* The numbers of the value are kept, and so is a categoryDistribution when
\* the samples added leave the documents of every category as they were
C29_NumbersKept ==
    [][(op' = "addTrainingData" /\ info # NoCall) =>
          /\ info'.vocabularySize = info.vocabularySize
          /\ info'.totalDocuments = info.totalDocuments
          /\ info'.trained = info.trained
          /\ info'.categoryDistribution = categoryCounts'
          /\ (categoryCounts' = categoryCounts => info' = info)]_vars

\* A value held through addTrainingData of a sample: its totalDocuments is
\* of the model before, its categoryDistribution of the model after
C29_DistributionChanged ==
    /\ op = "addTrainingData"
    /\ info # NoCall
    /\ trainingData = Append(embeddedTrainingData, Samples[1])
    /\ info.totalDocuments = Len(embeddedTrainingData)
    /\ info.categoryDistribution = categoryCounts
    /\ info.categoryDistribution["places"] = train(embeddedTrainingData).categoryCounts["places"] + 1

\* A value held through addTrainingData of no sample is as it was returned
C29_NothingAdded ==
    /\ op = "addTrainingData"
    /\ info # NoCall
    /\ trainingData = embeddedTrainingData
    /\ info = getModelInfo

\* A clean title-cased name: not empty, no white space at either end, no
\* empty word between spaces, no word that starts with a small letter
CleanName(name) ==
    /\ name # ""
    /\ trim(name) = name
    /\ \A i \in DOMAIN SplitOnSpace(name) :
           /\ SplitOnSpace(name)[i] # ""
           /\ Ch(SplitOnSpace(name)[i], 1) \notin LowerSet

Articles == <<"the", "a", "an">>

StartsWith(s, k) == Len(k) <= Len(s) /\ SubSeq(s, 1, Len(k)) = k

EndsWith(s, k) == Len(k) <= Len(s) /\ SubSeq(s, Len(s) - Len(k) + 1, Len(s)) = k

\* The captured phrase, trimmed, begins or ends with an article
ArticleAtEdge(captured) ==
    \E i \in DOMAIN Articles :
        \/ StartsWith(trim(captured), Articles[i] \o " ")
        \/ EndsWith(trim(captured), " " \o Articles[i])

\* The capture of a pattern
CapturedBy(i, t) == CapturedText(toLowerCase(t), PlaceMatch(i, t))

\* The patterns whose cleaned capture passes the test of analyzeSearchIntent
Chosen(t) == AcceptedIn(t) \ ShortIn(t)

\* C30: every destination analyzeSearchIntent produces from a pattern match
\* is a clean title-cased name: not empty, without white space at either end
\* and without an empty word between spaces, also when the captured phrase
\* begins with or contains an article (the, a, an); and it is no generic
\* filler word.
C30_CleanDestination ==
    (op = "analyzeSearchIntent" /\ ~ret.raised /\ Chosen(text) # {}) =>
        /\ ret.value.destination.defined
        /\ CleanName(ret.value.destination.value)
        /\ toLowerCase(ret.value.destination.value) \notin Range(genericWords)

\* The destination is the cleaned capture of the first pattern chosen; it is
\* no generic word, and it is a clean name exactly when the captured phrase
\* neither begins nor ends with an article
C30_CleanUnlessArticleAtEdge ==
    (op = "analyzeSearchIntent" /\ ~ret.raised /\ Chosen(text) # {}) =>
        /\ ret.value.destination = Defined(CleanedCapture(Least(Chosen(text)), text))
        /\ toLowerCase(ret.value.destination.value) \notin Range(genericWords)
        /\ CleanName(ret.value.destination.value)
               <=> ~ArticleAtEdge(CapturedBy(Least(Chosen(text)), text))

\* A capture without an article gives a clean name
C30_CleanWithoutArticle ==
    /\ op = "analyzeSearchIntent" /\ ~ret.raised
    /\ text = "find hotels in Rome"
    /\ ret.value.destination = Defined("Rome")
    /\ CleanName(ret.value.destination.value)

\* A capture that begins with an article and has another inside: the second
\* leaves no empty word, the first leaves a space in front (and so it does in
\* front of a generic word, which then passes the test)
C30_LeadingSpace ==
    /\ op = "analyzeSearchIntent" /\ ~ret.raised
    /\ text = Fragments[8]
    /\ CapturedBy(4, text) = "an old town to do a bit of sightseeing"
    /\ ret.value.destination = Defined(" Old Town To Do Bit Of Sightseeing")
    /\ cleanDestination("the town") = " Town"
    /\ toLowerCase(cleanDestination("the town")) \notin Range(genericWords)

=============================================================================
